---- MODULE Spec2Model ----
(***************************************************************************)
(* State-machine model of the simulation core of the TSRA / P-TSRA         *)
(* research platform: the driver runSimulation (simulator.ts), the         *)
(* Baseline policy TSRAAlgorithm (tsra.ts), the Predictive policy          *)
(* PTSRAAlgorithm with its GeneticOptimizer (p-tsra.ts, optimizer.ts).     *)
(*                                                                         *)
(* Numbers.  The program computes in IEEE doubles; the model computes in   *)
(* integers.  Bits, Hz, joules and watts are small integers in model       *)
(* units; a quotient is rounded down (\div), and sqrt, cube root, log2     *)
(* and 2^x are rounded down to the integer grid.  A comparison between     *)
(* irrational quantities is decided exactly on the radicands.  Fractions   *)
(* in [0,1] (genes, alpha) are kept in units of 1/GeneScale; xi is kept    *)
(* as a pair <<numerator, denominator>>.                                   *)
(*                                                                         *)
(* Randomness.  A draw of SeededRandom (or of Math.random) is an input:    *)
(* it is chosen with \E from a small sample of the values the generator    *)
(* can return.                                                             *)
(***************************************************************************)
EXTENDS Integers, Sequences, FiniteSets, TLC

VARIABLES
  config,          \* ExperimentConfig handed to runSimulation
  pc,              \* position of runSimulation
  status,          \* state.status
  current_slot,    \* state.current_slot
  tsra_results,    \* state.tsra_results
  ptsra_results,   \* state.ptsra_results
  optimizer_log,   \* state.optimizer_log
  slot,            \* loop variable of runSimulation
  tsraStates,      \* SensorState[] owned by the Baseline policy
  ptsraStates,     \* SensorState[] owned by the Predictive policy
  history,         \* arrivalHistory / harvestHistory / channelHistory of ptsra
  pt,              \* locals of the executeSlotPredictive call in progress
  opt,             \* locals of the GeneticOptimizer.optimize call in progress
  error,           \* the exception caught by runSimulation ("none" if none)
  decisions,       \* the decisions returned by the last call of each policy
  realized,        \* history variable: the draws of each policy, slot by slot
  cancelRequested  \* the caller has asked for the run to be cancelled

vars == <<config, pc, status, current_slot, tsra_results, ptsra_results,
          optimizer_log, slot, tsraStates, ptsraStates, history, pt, opt,
          error, decisions, realized, cancelRequested>>

----------------------------------------------------------------------------
(* Bounds of the model *)

MaxSlots == 2          \* config.slots is at most MaxSlots
MaxPoisson == 1        \* a Poisson draw is in 0..MaxPoisson

----------------------------------------------------------------------------
(* Arithmetic helpers (Math.min, Math.max, Math.pow, Math.log2, ...) *)

Min2(a, b) == IF a <= b THEN a ELSE b
Max2(a, b) == IF a >= b THEN a ELSE b
Min3(a, b, c) == Min2(a, Min2(b, c))

\* Math.pow(x, 1/2), rounded down
Sqrt(x) == CHOOSE r \in 0..x : r * r <= x /\ (r + 1) * (r + 1) > x

\* Math.pow(x, 1/3), rounded down
Cbrt(x) == CHOOSE r \in 0..x : r * r * r <= x /\ (r + 1) * (r + 1) * (r + 1) > x

\* Math.pow(2, e) for an integer e >= 0, saturating at 2^16 (the program
\* saturates at Infinity; every value compared with it is far smaller)
RECURSIVE Pow2(_)
Pow2(e) == IF e <= 0 THEN 1 ELSE IF e >= 16 THEN 65536 ELSE 2 * Pow2(e - 1)

\* Math.log2(num / den) rounded down, for num >= den > 0
RECURSIVE Log2(_, _)
Log2(num, den) == IF num < 2 * den THEN 0 ELSE 1 + Log2(num, 2 * den)

\* a || b on an optional number: an absent or a zero value is falsy
OrElse(x, y) == IF x = {} \/ x = {0} THEN y ELSE CHOOSE v \in x : TRUE

RECURSIVE SumSeq(_)
SumSeq(s) == IF s = <<>> THEN 0 ELSE Head(s) + SumSeq(Tail(s))

----------------------------------------------------------------------------
(* SeededRandom (random.ts).  random() returns u in [0,1); the model keeps u *)
(* in hundredths and draws it from URand.                                    *)

URand == {0, 50}

\* SeededRandom.uniform(min, max) on the draw u
uniform(u, min, max) == (u * (max - min)) \div 100 + min

\* SeededRandom.gaussian(mean, std) on the Box-Muller value z0
GaussZ == {0 - 1, 1}
gaussian(z0, mean, std) == z0 * std + mean

\* SeededRandom.poisson(lambda): the draws the generator can return
poisson(lambda) == 0..MaxPoisson

----------------------------------------------------------------------------
(* Stochastic event generation of TSRAAlgorithm.  Each operator is the      *)
(* set of values the call can return.                                       *)

generateArrival(sensor) ==
  LET model == sensor.arrival_model
      J == sensor.J_mean_bits_per_slot
  IN  CASE model.type = "poisson" ->
             {numArrivals * J : numArrivals \in poisson(OrElse(model.lambda, 1))}
        [] model.type = "fixed" -> {OrElse(model.value_bits, J)}
        [] model.type = "uniform" ->
             LET min == OrElse(model.min_bits, J \div 2)
                 max == OrElse(model.max_bits, (J * 3) \div 2)
             IN  {uniform(u, min, max) : u \in URand}
        [] OTHER -> {J}

generateHarvest(sensor) ==
  LET model == sensor.harvest_model
      hm == sensor.harvest_mean_J_per_slot
  IN  CASE model.type = "bernoulli" ->
             {IF u < OrElse(model.p, 10) THEN OrElse(model.value_J, hm) ELSE 0 :
                u \in URand}
        [] model.type = "constant" -> {OrElse(model.value_J, hm)}
        [] model.type = "gaussian" ->
             LET mean == OrElse(model.mean_J, hm)
                 std == OrElse(model.std_J, mean \div 5)
             IN  {Max2(0, gaussian(z, mean, std)) : z \in GaussZ}
        [] OTHER -> {hm}

\* the floor 1e-10 of the channel gain is the smallest positive gain, 1
generateChannelGain(sensor) ==
  LET mean == sensor.channel_mean_gain
      std == Sqrt(sensor.channel_variance)
  IN  {Max2(1, gaussian(z, mean, std)) : z \in GaussZ}

\* the draws of one sensor in one slot, in the order arrival, harvest, channel
Events(sensor) ==
  {[arrival |-> a, harvest |-> h, channelGain |-> g] :
     a \in generateArrival(sensor), h \in generateHarvest(sensor),
     g \in generateChannelGain(sensor)}

RECURSIVE EventSeqs(_)
EventSeqs(sensors) ==
  IF sensors = <<>> THEN {<<>>}
  ELSE {<<ev>> \o rest : ev \in Events(Head(sensors)),
                         rest \in EventSeqs(Tail(sensors))}

----------------------------------------------------------------------------
(* Fractions.  bounds of optimizeAlpha, [0,1], [0.1,1], [0,1], in tenths.   *)

bounds == <<<<0, 10>>, <<1, 10>>, <<0, 10>>>>

\* the number 1 as a fraction
GeneScale == bounds[1][2]

----------------------------------------------------------------------------
(* The Baseline policy: TSRAAlgorithm (tsra.ts).  alg holds the fields of   *)
(* the algorithm object: V, tau, bandwidth, theta, noise_power_W.            *)

\* a variant of taskSchedulingDecision that offloads on a tie
taskSchedulingDecisionTie(state) == IF state.H_o > state.H_l THEN 0 ELSE 1

\* Sub-problem 1
taskSchedulingDecision(state) == IF state.H_o >= state.H_l THEN 0 ELSE 1

\* a variant of localCPUFrequencyAllocation that runs the CPU at f_max
localCPUFrequencyMax(alg, sensor, state) == sensor.f_max_Hz

\* Sub-problem 2
localCPUFrequencyAllocation(alg, sensor, state) ==
  LET delta == sensor.delta_cycles_per_bit
      theta == alg.theta
      H_l == state.H_l
      B_u == state.B_u
      f_max == sensor.f_max_Hz
      tau == alg.tau
      batteryThreshold == Cbrt(B_u \div (theta * tau))
      queueConstraint == (H_l * delta) \div tau
      lyapunovFreq == Sqrt(H_l \div (3 * alg.V * theta * delta))
  IN  IF batteryThreshold <= Min2(f_max, queueConstraint)
      THEN IF lyapunovFreq <= batteryThreshold
           THEN Min2(f_max, Max2(0, lyapunovFreq))
           ELSE Min3(f_max, queueConstraint, lyapunovFreq)
      ELSE Min2(f_max, queueConstraint)

\* Sub-problem 3; Math.log(2) is 693/1000
transmissionPowerAllocation(alg, sensor, state, channelGain) ==
  LET H_o == state.H_o
      H_k == state.H_k
      sigma2 == alg.noise_power_W
      p_max == sensor.p_max_W
      b == alg.bandwidth
      numerator == (H_o - H_k) * b
      denominator == alg.V * 693
      waterLevel == (numerator * 1000 * channelGain - sigma2 * denominator)
                      \div (denominator * channelGain)
      maxRateConstraint ==
        ((Pow2(H_o \div (b * alg.tau)) - 1) * sigma2) \div channelGain
  IN  IF H_o <= H_k THEN 0
      ELSE Max2(0, Min3(p_max, waterLevel, maxRateConstraint))

calculateTransmissionRate(alg, power, channelGain) ==
  alg.bandwidth
    * Log2(alg.noise_power_W + power * channelGain, alg.noise_power_W)
    * alg.tau

calculateLocalEnergy(alg, frequency) ==
  alg.theta * frequency * frequency * frequency * alg.tau

calculateTransmissionEnergy(alg, power) == power * alg.tau

\* the ids of a sensor list
Ids(sensors) == {sensors[i].id : i \in 1..Len(sensors)}

\* Sub-problem 4.  The result is the Map from sensor id to xi = <<num, den>>:
\* a later set() of the same id replaces an earlier one.
edgeServerAllocation(sensors, states) ==
  LET n == Len(sensors)
      weight(i) == states[i].H_k * sensors[i].priority_weight
      totalWeight == SumSeq([i \in 1..n |-> weight(i)])
      xi(i) == IF totalWeight > 0 THEN <<weight(i), totalWeight>> ELSE <<1, n>>
      clip(x) == IF x[1] > x[2] THEN <<1, 1>> ELSE x
      last(id) == CHOOSE i \in 1..n :
                    /\ sensors[i].id = id
                    /\ \A j \in 1..n : sensors[j].id = id => j <= i
  IN  [id \in Ids(sensors) |-> clip(xi(last(id)))]

\* edgeAllocations.get(id) || 0
GetXi(edgeAllocations, id) ==
  IF id \in DOMAIN edgeAllocations /\ edgeAllocations[id][1] # 0
  THEN edgeAllocations[id] ELSE <<0, 1>>

\* config.edge_servers[0]: undefined when the list is empty
Undefined == [id |-> "undefined", f_k_Hz |-> 0]
FirstEdgeServer(edge_servers) ==
  IF Len(edge_servers) > 0 THEN edge_servers[1] ELSE Undefined

\* a variant of Update that leaves the clip at zero out
UpdateUnclipped(level, served, added) == level - served + added

\* a variant of Update that clips after the addition
UpdateClipLast(level, served, added) == Max2(0, level - served + added)

\* lines 455-460 of executeSlot: the update of a queue or of the battery,
\* Math.max(0, level - served) + added
Update(level, served, added) == Max2(0, level - served) + added

\* what one sensor's pass through the loop body of executeSlot computes
SlotOfSensor(alg, sensor, state, edgeServer, xi_u, ev) ==
  LET arrival == ev.arrival
      harvest == ev.harvest
      channelGain == ev.channelGain
      kappa == taskSchedulingDecision(state)
      f_u == localCPUFrequencyAllocation(alg, sensor, state)
      p_u == transmissionPowerAllocation(alg, sensor, state, channelGain)
      delta == sensor.delta_cycles_per_bit
      C_l == (f_u * alg.tau) \div delta
      C_o == calculateTransmissionRate(alg, p_u, channelGain)
      C_k == (xi_u[1] * edgeServer.f_k_Hz * alg.tau) \div (xi_u[2] * delta)
      localEnergy == calculateLocalEnergy(alg, f_u)
      txEnergy == calculateTransmissionEnergy(alg, p_u)
      new_H_l == Update(state.H_l, C_l, (1 - kappa) * arrival)
      new_H_o == Update(state.H_o, C_o, kappa * arrival)
      new_H_k == Update(state.H_k, C_k, C_o)
      new_B_u == Update(state.B_u, localEnergy, harvest)
      alpha == IF sensor.offload_mode = "fractional"
               THEN (IF arrival > 0
                     THEN (kappa * arrival * GeneScale) \div arrival ELSE 0)
               ELSE kappa * GeneScale
  IN  [decision |-> [kappa |-> kappa, alpha |-> alpha, f_u |-> f_u,
                     p_u |-> p_u, xi_u |-> xi_u],
       newState |-> [H_l |-> new_H_l, H_o |-> new_H_o, H_k |-> new_H_k,
                     B_u |-> new_B_u],
       sensorResult |-> [id |-> sensor.id, H_l |-> new_H_l, H_o |-> new_H_o,
                         H_k |-> new_H_k, alpha |-> alpha,
                         local_energy_J |-> localEnergy,
                         tx_energy_J |-> txEnergy, p_tx_W |-> p_u,
                         f_cpu_Hz |-> f_u, arrival_bits |-> arrival,
                         harvest_J |-> harvest, battery_J |-> new_B_u]]

\* EdgeSlotResult of a slot
EdgeResult(alg, sensors, edgeServer, edgeAllocations) ==
  [ES_allocations |->
     [i \in 1..Len(sensors) |->
        LET xi == GetXi(edgeAllocations, sensors[i].id)
        IN  [sensor_id |-> sensors[i].id, xi |-> xi,
             processed_bits |->
               (xi[1] * edgeServer.f_k_Hz * alg.tau)
                 \div (xi[2] * sensors[i].delta_cycles_per_bit)]]]

\* executeSlot reads edgeServer.f_k_Hz in its loop body and in edgeResult:
\* a TypeError when the edge server is undefined and there is a sensor
executeSlotThrows(sensors, edgeServer) ==
  Len(sensors) > 0 /\ edgeServer = Undefined

\* TSRAAlgorithm.executeSlot on the draws events[i] of sensor i
executeSlot(alg, sensors, states, edgeServer, events) ==
  LET edgeAllocations == edgeServerAllocation(sensors, states)
      r == [i \in 1..Len(sensors) |->
              SlotOfSensor(alg, sensors[i], states[i], edgeServer,
                           GetXi(edgeAllocations, sensors[i].id), events[i])]
  IN  [decisions |-> [i \in 1..Len(sensors) |-> r[i].decision],
       newStates |-> [i \in 1..Len(sensors) |-> r[i].newState],
       sensorResults |-> [i \in 1..Len(sensors) |-> r[i].sensorResult],
       edgeResult |-> EdgeResult(alg, sensors, edgeServer, edgeAllocations)]

initializeSensorStates(sensors) ==
  [i \in 1..Len(sensors) |->
     [H_l |-> sensors[i].initial_queue_bits \div 2,
      H_o |-> sensors[i].initial_queue_bits \div 2,
      H_k |-> 0,
      B_u |-> sensors[i].battery_J]]

----------------------------------------------------------------------------
(* The Predictive policy: PTSRAAlgorithm (p-tsra.ts) *)

WindowSize == 50

\* push, then shift when the window is longer than WindowSize
Push(window, x) ==
  LET w == Append(window, x)
  IN  IF Len(w) > WindowSize THEN Tail(w) ELSE w

EmptyHistory == [arrivals |-> <<>>, harvests |-> <<>>, channels |-> <<>>]

\* Map.get(sensorId) || []
GetHistory(h, sensorId) == IF sensorId \in DOMAIN h THEN h[sensorId] ELSE EmptyHistory

updateHistory(h, sensorId, arrival, harvest, channelGain) ==
  LET old == GetHistory(h, sensorId)
      new == [arrivals |-> Push(old.arrivals, arrival),
              harvests |-> Push(old.harvests, harvest),
              channels |-> Push(old.channels, channelGain)]
  IN  [id \in DOMAIN h \cup {sensorId} |-> IF id = sensorId THEN new ELSE h[id]]

\* the EWMA smoothing factor 0.3, in hundredths
ewmaAlpha == 30

\* the loop of calculateEWMA up to history[n], in hundredths
RECURSIVE EWMAUpTo(_, _)
EWMAUpTo(window, n) ==
  IF n = 1 THEN 100 * window[1]
  ELSE (ewmaAlpha * 100 * window[n] + (100 - ewmaAlpha) * EWMAUpTo(window, n - 1))
         \div 100

\* calculateEWMA, in hundredths
calculateEWMA(window, defaultValue) ==
  IF Len(window) = 0 THEN 100 * defaultValue ELSE EWMAUpTo(window, Len(window))

\* the three EWMAs of a sensor's windows with the configured means as defaults
EWMAs(windows, sensor) ==
  [arrival |-> calculateEWMA(windows.arrivals, sensor.J_mean_bits_per_slot),
   harvest |-> calculateEWMA(windows.harvests, sensor.harvest_mean_J_per_slot),
   channel |-> calculateEWMA(windows.channels, sensor.channel_mean_gain)]

\* the perturbed predictions of an EWMA triple: us[k] are the three
\* Math.random() draws of step k; 0.9 + u * 0.2, 0.8 + u * 0.4, 0.85 + u * 0.3.
\* Values in hundredths.
Perturbed(ewma, horizon, us) ==
  [arrivals |-> [k \in 1..horizon |->
                   (ewma.arrival * (90 + (us[k][1] * 20) \div 100)) \div 100],
   harvests |-> [k \in 1..horizon |->
                   (ewma.harvest * (80 + (us[k][2] * 40) \div 100)) \div 100],
   channelGains |-> [k \in 1..horizon |->
                       (ewma.channel * (85 + (us[k][3] * 30) \div 100)) \div 100]]

\* the three draws of a step: all low or all in the middle
NoiseDraws == {[j \in 1..3 |-> u] : u \in URand}

\* predictFuture on the history maps h
predictFuture(h, sensor, horizon, us) ==
  Perturbed(EWMAs(GetHistory(h, sensor.id), sensor), horizon, us)

\* a variant of Denormalize that takes the power gene as watts
DenormalizeWatts(sensor, genes) ==
  [alpha |-> genes[1],
   f_u |-> (genes[2] * sensor.f_max_Hz) \div GeneScale,
   p_u |-> genes[3] \div GeneScale]

\* what optimizeAlpha returns for the best individual of the optimizer
Denormalize(sensor, genes) ==
  [alpha |-> genes[1],
   f_u |-> (genes[2] * sensor.f_max_Hz) \div GeneScale,
   p_u |-> (genes[3] * sensor.p_max_W) \div GeneScale]

\* a variant of Fallback that keeps the arrival local whatever the queues
FallbackLocal(alg, sensor, state, channelGain) ==
  [alpha |-> 0,
   f_u |-> localCPUFrequencyAllocation(alg, sensor, state),
   p_u |-> transmissionPowerAllocation(alg, sensor, state, channelGain)]

\* the fallback of executeSlotPredictive when the horizon is 0
Fallback(alg, sensor, state, channelGain) ==
  LET kappa == taskSchedulingDecision(state)
  IN  [alpha |-> kappa * GeneScale,
       f_u |-> localCPUFrequencyAllocation(alg, sensor, state),
       p_u |-> transmissionPowerAllocation(alg, sensor, state, channelGain)]

\* a variant of UpdatePredictive that lets the level go below zero
UpdatePredictiveUnclipped(level, served, added) == level - served + added

\* lines 366-369 of executeSlotPredictive: the update of a queue or of the
\* battery, Math.max(0, level - served) + added
UpdatePredictive(level, served, added) == Max2(0, level - served) + added

\* lines 344-395 of executeSlotPredictive: the commit of one sensor with the
\* action act = [alpha, f_u, p_u]
PredictiveSlotOfSensor(alg, sensor, state, edgeServer, xi_u, ev, act) ==
  LET arrival == ev.arrival
      harvest == ev.harvest
      channelGain == ev.channelGain
      alpha == act.alpha
      f_u == act.f_u
      p_u == act.p_u
      delta == sensor.delta_cycles_per_bit
      tau == alg.tau
      C_l == (f_u * tau) \div delta
      C_o == alg.bandwidth
               * Log2(alg.noise_power_W + p_u * channelGain, alg.noise_power_W)
               * tau
      C_k == (xi_u[1] * edgeServer.f_k_Hz * tau) \div (xi_u[2] * delta)
      localEnergy == alg.theta * f_u * f_u * f_u * tau
      txEnergy == p_u * tau
      localArrival == ((GeneScale - alpha) * arrival) \div GeneScale
      offloadArrival == (alpha * arrival) \div GeneScale
      new_H_l == UpdatePredictive(state.H_l, C_l, localArrival)
      new_H_o == UpdatePredictive(state.H_o, C_o, offloadArrival)
      new_H_k == UpdatePredictive(state.H_k, C_k, C_o)
      new_B_u == UpdatePredictive(state.B_u, localEnergy, harvest)
      kappa == IF 2 * alpha >= GeneScale THEN 1 ELSE 0
  IN  [decision |-> [kappa |-> kappa, alpha |-> alpha, f_u |-> f_u,
                     p_u |-> p_u, xi_u |-> xi_u],
       newState |-> [H_l |-> new_H_l, H_o |-> new_H_o, H_k |-> new_H_k,
                     B_u |-> new_B_u],
       sensorResult |-> [id |-> sensor.id, H_l |-> new_H_l, H_o |-> new_H_o,
                         H_k |-> new_H_k, alpha |-> alpha,
                         local_energy_J |-> localEnergy,
                         tx_energy_J |-> txEnergy, p_tx_W |-> p_u,
                         f_cpu_Hz |-> f_u, arrival_bits |-> arrival,
                         harvest_J |-> harvest, battery_J |-> new_B_u]]

----------------------------------------------------------------------------
(* The driver: runSimulation (simulator.ts) *)

DefaultRate == 100000

\* the value of 0 / 0
NaN == "NaN"

\* calculateGlobalMetrics; best_fitness is kept in hundredths; with an empty
\* list totalLatency / sensorResults.length is 0 / 0
calculateGlobalMetrics(sensorResults) ==
  LET n == Len(sensorResults)
      backlog(i) == sensorResults[i].H_l + sensorResults[i].H_o + sensorResults[i].H_k
      energy(i) == sensorResults[i].local_energy_J + sensorResults[i].tx_energy_J
      avgRate(i) == IF sensorResults[i].arrival_bits > 0
                    THEN sensorResults[i].arrival_bits ELSE DefaultRate
      latency(i) == (backlog(i) * 1000) \div avgRate(i)
      totalBacklog == SumSeq([i \in 1..n |-> backlog(i)])
      totalEnergy == SumSeq([i \in 1..n |-> energy(i)])
      totalLatency == SumSeq([i \in 1..n |-> latency(i)])
  IN  [total_backlog_bits |-> totalBacklog,
       total_energy_J |-> totalEnergy,
       best_fitness |-> 0 - 100 * totalEnergy - totalBacklog,
       avg_latency_ms |-> IF n = 0 THEN NaN ELSE totalLatency \div n]

\* a variant of SlotResult that numbers the slots from 1
SlotResultOneBased(s, r, algorithm) ==
  [slot |-> s + 1, sensor_results |-> r.sensorResults,
   edge_results |-> r.edgeResult,
   global_metrics |-> calculateGlobalMetrics(r.sensorResults),
   algorithm |-> algorithm]

\* lines 90-96 and 120-126: the record of a slot
SlotResult(s, r, algorithm) ==
  [slot |-> s, sensor_results |-> r.sensorResults, edge_results |-> r.edgeResult,
   global_metrics |-> calculateGlobalMetrics(r.sensorResults),
   algorithm |-> algorithm]

\* the fields V, tau, bandwidth, globalParams of the two algorithm objects
Alg(cfg) ==
  [V |-> cfg.V, tau |-> cfg.slot_duration_s, bandwidth |-> cfg.bandwidth_Hz,
   theta |-> cfg.global_params.theta,
   noise_power_W |-> cfg.global_params.noise_power_W]

YieldPeriod == 10

\* the optimizer's view of its population: the best individual population[0]
\* (genes in tenths, fitness as a rank) is kept; the draws that make the rest
\* of the population are inputs
GeneSamples == {<<0, 1, 10>>, <<5, 10, 10>>, <<10, 5, 5>>}
FitnessSamples == {0, 1}
Individuals == [genes : GeneSamples, fitness : FitnessSamples]

NoCall == [i |-> 0]
NoOpt == [gen |-> 0]

----------------------------------------------------------------------------
(* Configurations handed to runSimulation *)

ArrivalModel(type, lambda, value_bits) ==
  [type |-> type, lambda |-> lambda, value_bits |-> value_bits,
   min_bits |-> {}, max_bits |-> {}]

HarvestModel(type, p, value_J) ==
  [type |-> type, p |-> p, value_J |-> value_J, mean_J |-> {}, std_J |-> {}]

SensorConfig(id, mode, w, arrival_model, harvest_model, variance, battery) ==
  [id |-> id, J_mean_bits_per_slot |-> 2, arrival_model |-> arrival_model,
   initial_queue_bits |-> 4, battery_J |-> battery,
   harvest_mean_J_per_slot |-> 4, harvest_model |-> harvest_model,
   f_max_Hz |-> 2, delta_cycles_per_bit |-> 1, p_max_W |-> 3,
   channel_mean_gain |-> 2, channel_variance |-> variance,
   offload_mode |-> mode, priority_weight |-> w]

Poisson1 == ArrivalModel("poisson", {1}, {})
Fixed4 == ArrivalModel("fixed", {}, {4})
Constant4 == HarvestModel("constant", {}, {4})
Bernoulli8 == HarvestModel("bernoulli", {50}, {8})

Fixed0 == ArrivalModel("fixed", {}, {0})
Uniform0to4 ==
  [ArrivalModel("uniform", {}, {}) EXCEPT !.min_bits = {0}, !.max_bits = {4}]
Uniform4to2 ==
  [ArrivalModel("uniform", {}, {}) EXCEPT !.min_bits = {4}, !.max_bits = {2}]
Constant0 == HarvestModel("constant", {}, {0})
Bernoulli0 == HarvestModel("bernoulli", {0}, {8})

EdgeServer == [id |-> "edge-1", f_k_Hz |-> 4]

ExperimentConfig(sensors, edge_servers, horizon, progressCallback) ==
  [slots |-> MaxSlots, slot_duration_s |-> 1, bandwidth_Hz |-> 1, V |-> 1,
   prediction_horizon |-> horizon,
   optimizer |-> [population |-> 3, generations |-> 3],
   global_params |-> [theta |-> 1, noise_power_W |-> 2],
   sensors |-> sensors, edge_servers |-> edge_servers,
   progressCallback |-> progressCallback, optimizerCallback |-> TRUE]

Configs ==
  { \* two sensors, weights 1 and 2, horizon 0
    ExperimentConfig(
      <<SensorConfig("sensor-1", "fractional", 1, Poisson1, Constant4, 0, 8),
        SensorConfig("sensor-2", "binary", 2, Fixed4, Constant4, 0, 8)>>,
      <<EdgeServer>>, 0, TRUE),
    \* a fading channel, an empty battery, no progress callback
    ExperimentConfig(
      <<SensorConfig("sensor-1", "fractional", 1, Fixed4, Bernoulli8, 1, 0)>>,
      <<EdgeServer>>, 0, FALSE),
    \* the optimizer decides: horizon 1
    ExperimentConfig(
      <<SensorConfig("sensor-1", "binary", 1, Fixed4, Constant4, 0, 8),
        SensorConfig("sensor-2", "fractional", 2, Fixed4, Constant4, 0, 8)>>,
      <<EdgeServer>>, 1, TRUE),
    \* no edge server
    ExperimentConfig(
      <<SensorConfig("sensor-1", "binary", 1, Fixed4, Constant4, 0, 8)>>,
      <<>>, 0, TRUE),
    \* the builder's list after generate 2, remove the first, duplicate,
    \* edit the arrival model and the weight of the copy: one id twice
    ExperimentConfig(
      <<SensorConfig("sensor-2", "binary", 1, Poisson1, Constant4, 0, 8),
        SensorConfig("sensor-2", "binary", 2, Fixed4, Constant4, 0, 8)>>,
      <<EdgeServer>>, 0, TRUE),
    \* an empty sensor list handed to runSimulation directly
    ExperimentConfig(<<>>, <<EdgeServer>>, 0, FALSE),
    \* no transmission power: one sensor that starts with empty queues, the
    \* optimizer decides
    ExperimentConfig(
      <<[SensorConfig("sensor-1", "binary", 1, Fixed4, Constant4, 0, 8)
           EXCEPT !.p_max_W = 0, !.initial_queue_bits = 0]>>,
      <<EdgeServer>>, 1, FALSE),
    \* no transmission power: two sensors with backlog, horizon 0
    ExperimentConfig(
      <<[SensorConfig("sensor-1", "fractional", 1, Fixed4, Constant4, 0, 8)
           EXCEPT !.p_max_W = 0],
        [SensorConfig("sensor-2", "binary", 2, Fixed4, Constant4, 0, 8)
           EXCEPT !.p_max_W = 0]>>,
      <<EdgeServer>>, 0, FALSE),
    \* model parameters given as zero
    ExperimentConfig(
      <<SensorConfig("sensor-1", "binary", 1, Fixed0, Constant0, 0, 8),
        SensorConfig("sensor-2", "binary", 1, Uniform0to4, Bernoulli0, 0, 8)>>,
      <<EdgeServer>>, 0, FALSE),
    \* a uniform arrival model whose range is reversed, and queues of one bit,
    \* less than f_max serves in a slot
    ExperimentConfig(
      <<[SensorConfig("sensor-1", "binary", 1, Uniform4to2, Constant4, 0, 8)
           EXCEPT !.initial_queue_bits = 2]>>,
      <<EdgeServer>>, 0, FALSE) }

----------------------------------------------------------------------------
(* runSimulation as a state machine *)

Init ==
  /\ config \in Configs
  /\ pc = "loop"
  /\ status = "running"
  /\ current_slot = 0
  /\ tsra_results = <<>>
  /\ ptsra_results = <<>>
  /\ optimizer_log = <<>>
  /\ slot = 0
  /\ tsraStates = initializeSensorStates(config.sensors)
  /\ ptsraStates = initializeSensorStates(config.sensors)
  /\ history = <<>>
  /\ pt = NoCall
  /\ opt = NoOpt
  /\ error = "none"
  /\ decisions = [tsra |-> <<>>, ptsra |-> <<>>]
  /\ realized = [tsra |-> <<>>, ptsra |-> <<>>]
  /\ cancelRequested = FALSE

\* a variant of Catch that returns without setting the status
CatchSilent(e) ==
  /\ status' = status
  /\ error' = e
  /\ pc' = "done"

\* the catch block: status = 'error', then return state
Catch(e) ==
  /\ status' = "error"
  /\ error' = e
  /\ pc' = "done"

\* lines 73-97: the loop test, then the Baseline slot and its record
RunTSRA ==
  /\ pc = "loop"
  /\ slot < config.slots
  /\ current_slot' = slot
  /\ LET edgeServer == FirstEdgeServer(config.edge_servers)
     IN  IF executeSlotThrows(config.sensors, edgeServer)
         THEN /\ Catch("TypeError")
              /\ UNCHANGED <<tsraStates, tsra_results, decisions, realized>>
         ELSE \E events \in EventSeqs(config.sensors) :
                LET tsraResult == executeSlot(Alg(config), config.sensors,
                                              tsraStates, edgeServer, events)
                IN  /\ tsraStates' = tsraResult.newStates
                    /\ tsra_results' =
                         Append(tsra_results, SlotResult(slot, tsraResult, "TSRA"))
                    /\ decisions' = [decisions EXCEPT !.tsra = tsraResult.decisions]
                    /\ realized' = [realized EXCEPT !.tsra = Append(@, events)]
                    /\ pc' = "ptsra"
                    /\ UNCHANGED <<status, error>>
  /\ UNCHANGED <<config, ptsra_results, optimizer_log, slot, ptsraStates,
                 history, pt, opt, cancelRequested>>

\* line 140: the loop is over
Complete ==
  /\ pc = "loop"
  /\ slot >= config.slots
  /\ status' = "completed"
  /\ pc' = "done"
  /\ UNCHANGED <<config, current_slot, tsra_results, ptsra_results,
                 optimizer_log, slot, tsraStates, ptsraStates, history, pt,
                 opt, error, decisions,
                 realized, cancelRequested>>

\* line 100 and lines 289-295: executeSlotPredictive is entered and computes
\* the edge allocations from the slot-start states; with no sensor the loop of
\* lines 297-395 has no iteration and the record of the slot follows at once
\* (the Baseline pass of the same slot has already read the edge server)
BeginPredictive ==
  /\ pc = "ptsra"
  /\ LET edgeAllocations == edgeServerAllocation(config.sensors, ptsraStates)
         ptsraResult ==
           [decisions |-> <<>>, newStates |-> <<>>, sensorResults |-> <<>>,
            edgeResult |-> EdgeResult(Alg(config), config.sensors,
                                      FirstEdgeServer(config.edge_servers),
                                      edgeAllocations)]
     IN  IF config.sensors = <<>>
         THEN /\ ptsraStates' = ptsraResult.newStates
              /\ decisions' = [decisions EXCEPT !.ptsra = ptsraResult.decisions]
              /\ realized' = [realized EXCEPT !.ptsra = Append(@, <<>>)]
              /\ ptsra_results' =
                   Append(ptsra_results, SlotResult(slot, ptsraResult, "P-TSRA"))
              /\ pt' = NoCall
              /\ pc' = "progress"
         ELSE /\ pt' = [i |-> 1, edgeAllocations |-> edgeAllocations,
                        decisions |-> <<>>, newStates |-> <<>>,
                        sensorResults |-> <<>>,
                        events |-> <<>>, ev |-> <<>>, act |-> <<>>,
                        predictions |-> <<>>]
              /\ pc' = "sensor"
              /\ UNCHANGED <<ptsraStates, ptsra_results, decisions, realized>>
  /\ UNCHANGED <<config, status, current_slot, tsra_results, optimizer_log,
                 slot, tsraStates, history, opt, error, cancelRequested>>

\* Math.max(2, Math.floor(populationSize * 0.1))
eliteCount(populationSize) == Max2(2, populationSize \div 10)

\* lines 297-342 for sensor pt.i: the draws, updateHistory, predictFuture on
\* the updated history, then either the start of optimizer.optimize (lines
\* 567-576) or the fallback
DecideSensor ==
  /\ pc = "sensor"
  /\ LET sensor == config.sensors[pt.i]
         state == ptsraStates[pt.i]
     IN  \E ev \in Events(sensor),
            us \in [1..config.prediction_horizon -> NoiseDraws] :
           /\ history' = updateHistory(history, sensor.id, ev.arrival,
                                       ev.harvest, ev.channelGain)
           /\ IF config.prediction_horizon > 0
              THEN IF config.optimizer.population < 1
                   THEN /\ Catch("TypeError")
                        /\ UNCHANGED <<pt, opt>>
                   ELSE \E first \in Individuals :
                          /\ opt' = [gen |-> 0, population0 |-> first,
                                     bestEver |-> first, stagnationCount |-> 0]
                          /\ pt' = [pt EXCEPT
                                      !.ev = ev,
                                      !.predictions =
                                        predictFuture(history', sensor,
                                          config.prediction_horizon, us)]
                          /\ pc' = "generation"
                          /\ UNCHANGED <<status, error>>
              ELSE /\ pt' = [pt EXCEPT !.ev = ev,
                                       !.predictions =
                                         predictFuture(history', sensor,
                                           config.prediction_horizon, us),
                                       !.act = Fallback(Alg(config), sensor, state,
                                                        ev.channelGain)]
                   /\ pc' = "commit"
                   /\ UNCHANGED <<opt, status, error>>
  /\ UNCHANGED <<config, current_slot, tsra_results, ptsra_results,
                 optimizer_log, slot, tsraStates, ptsraStates, decisions,
                 realized, cancelRequested>>

\* Math.ceil(generations / 2)
maxStagnation(generations) == (generations + 1) \div 2

\* lines 586-591: the improvement check of a generation
Stagnation(o) ==
  IF o.population0.fitness < o.bestEver.fitness THEN 0 ELSE o.stagnationCount + 1

\* lines 598-626: population[0] of the next population, sorted by fitness.
\* The elites are copied first and the sort is stable, so it is the old
\* population[0] or a child that is strictly better.
NextBest(o, populationSize) ==
  {o.population0} \cup
  (IF populationSize > eliteCount(populationSize)
   THEN {c \in Individuals : c.fitness < o.population0.fitness} ELSE {})

\* a variant of UpdateBestEver that never takes the new best member
UpdateBestEverNever(bestEver, population0) == bestEver

\* lines 629-631
UpdateBestEver(bestEver, population0) ==
  IF population0.fitness < bestEver.fitness THEN population0 ELSE bestEver

\* optimize returns bestEver, optimizeAlpha denormalizes it (lines 265-270)
ReturnBest(bestEver) ==
  /\ pt' = [pt EXCEPT !.act = Denormalize(config.sensors[pt.i], bestEver.genes)]
  /\ opt' = NoOpt
  /\ pc' = "commit"

\* a variant of LogEntry in which the caller does not set the slot
LogEntrySlotZero(s, gen) == [slot |-> 0, generation |-> gen]

\* the entry of a generation (lines 251-258) with the slot set by the callback
\* of executeSlotPredictive (line 322)
LogEntry(s, gen) == [slot |-> s, generation |-> gen]

\* one pass of the loop of optimize (lines 578-632): the generation callback
\* appends the log entry (simulator.ts line 106) and calls optimizerCallback,
\* which is the caller's code and may throw
Generation ==
  /\ pc = "generation"
  /\ IF opt.gen < config.optimizer.generations
     THEN /\ optimizer_log' =
               Append(optimizer_log, LogEntry(slot, opt.gen))
          /\ \E throws \in {FALSE, config.optimizerCallback} :
               LET stagnationCount == Stagnation(opt)
                   bestEver == UpdateBestEver(opt.bestEver, opt.population0)
                   populationSize == config.optimizer.population
               IN  IF throws
                   THEN Catch("optimizerCallback") /\ UNCHANGED <<pt, opt>>
                   ELSE IF stagnationCount
                             >= maxStagnation(config.optimizer.generations)
                   THEN ReturnBest(bestEver) /\ UNCHANGED <<status, error>>
                   ELSE IF populationSize < eliteCount(populationSize)
                   THEN Catch("TypeError") /\ UNCHANGED <<pt, opt>>
                   ELSE \E best \in NextBest(opt, populationSize) :
                          /\ opt' = [gen |-> opt.gen + 1,
                                     population0 |-> best,
                                     bestEver |-> UpdateBestEver(bestEver, best),
                                     stagnationCount |-> stagnationCount]
                          /\ pc' = "generation"
                          /\ UNCHANGED <<pt, status, error>>
     ELSE /\ ReturnBest(opt.bestEver)
          /\ UNCHANGED <<optimizer_log, status, error>>
  /\ UNCHANGED <<config, current_slot, tsra_results, ptsra_results, slot,
                 tsraStates, ptsraStates, history, decisions,
                 realized, cancelRequested>>

\* lines 344-395 for sensor pt.i, and after the last sensor lines 398-406 and
\* simulator.ts lines 112-127: the Predictive record of the slot
CommitSensor ==
  /\ pc = "commit"
  /\ LET sensors == config.sensors
         edgeServer == FirstEdgeServer(config.edge_servers)
         i == pt.i
         r == PredictiveSlotOfSensor(Alg(config), sensors[i], ptsraStates[i],
                edgeServer, GetXi(pt.edgeAllocations, sensors[i].id), pt.ev, pt.act)
         decisionList == Append(pt.decisions, r.decision)
         newStates == Append(pt.newStates, r.newState)
         sensorResults == Append(pt.sensorResults, r.sensorResult)
         events == Append(pt.events, pt.ev)
         ptsraResult ==
           [decisions |-> decisionList, newStates |-> newStates,
            sensorResults |-> sensorResults,
            edgeResult |-> EdgeResult(Alg(config), sensors, edgeServer,
                                      pt.edgeAllocations)]
     IN  IF edgeServer = Undefined
         THEN /\ Catch("TypeError")
              /\ UNCHANGED <<pt, ptsraStates, ptsra_results, decisions, realized>>
         ELSE IF i < Len(sensors)
         THEN /\ pt' = [pt EXCEPT !.i = i + 1, !.decisions = decisionList,
                                  !.newStates = newStates,
                                  !.sensorResults = sensorResults,
                                  !.events = events]
              /\ pc' = "sensor"
              /\ UNCHANGED <<ptsraStates, ptsra_results, status, error,
                             decisions, realized>>
         ELSE /\ ptsraStates' = ptsraResult.newStates
              /\ decisions' = [decisions EXCEPT !.ptsra = ptsraResult.decisions]
              /\ realized' = [realized EXCEPT !.ptsra = Append(@, events)]
              /\ ptsra_results' =
                   Append(ptsra_results, SlotResult(slot, ptsraResult, "P-TSRA"))
              /\ pt' = NoCall
              /\ pc' = "progress"
              /\ UNCHANGED <<status, error>>
  /\ UNCHANGED <<config, current_slot, tsra_results, optimizer_log, slot,
                 tsraStates, history, opt, cancelRequested>>

\* lines 73 and 134-137: the next iteration, after a yield to the event loop
\* when the slot is a multiple of YieldPeriod
NextSlot ==
  IF slot % YieldPeriod = 0
  THEN pc' = "yield" /\ UNCHANGED slot
  ELSE pc' = "loop" /\ slot' = slot + 1

\* lines 129-132: the progress callback, the caller's code, which may throw
Progress ==
  /\ pc = "progress"
  /\ \E throws \in {FALSE, config.progressCallback} :
       IF throws
       THEN Catch("progressCallback") /\ UNCHANGED slot
       ELSE NextSlot /\ UNCHANGED <<status, error>>
  /\ UNCHANGED <<config, current_slot, tsra_results, ptsra_results,
                 optimizer_log, tsraStates, ptsraStates, history, pt, opt, decisions,
                 realized, cancelRequested>>

\* line 136: the awaited timeout fires
Resume ==
  /\ pc = "yield"
  /\ slot' = slot + 1
  /\ pc' = "loop"
  /\ UNCHANGED <<config, status, current_slot, tsra_results, ptsra_results,
                 optimizer_log, tsraStates, ptsraStates, history, pt, opt, error, decisions,
                 realized, cancelRequested>>

\* lines 30-34 and 134-137: while the driver awaits the timeout the caller's
\* code runs and may ask for cancellation; runSimulation takes a configuration
\* and two callbacks, no signal, so the request is recorded and never read
Cancel ==
  /\ pc = "yield"
  /\ ~cancelRequested
  /\ cancelRequested' = TRUE
  /\ UNCHANGED <<config, pc, status, current_slot, tsra_results, ptsra_results,
                 optimizer_log, slot, tsraStates, ptsraStates, history, pt, opt,
                 error, decisions, realized>>

Next ==
  \/ Cancel
  \/ RunTSRA
  \/ Complete
  \/ BeginPredictive
  \/ DecideSensor
  \/ Generation
  \/ CommitSensor
  \/ Progress
  \/ Resume

Spec == Init /\ [][Next]_vars

----------------------------------------------------------------------------
(* The optimizer: GeneticOptimizer (optimizer.ts), with the fitness function *)
(* and the bounds optimizeAlpha hands to it (p-tsra.ts).  The draws of the   *)
(* optimizer's generator are inputs of the operators.                         *)

\* the fitness of an individual that has not been evaluated
Infinity == 2 ^ 30

\* the penalty of a violated constraint
Penalty == 1000000

\* the fitness above which evaluatePopulation counts an individual infeasible
InfeasibleAbove == 100000

\* Math.pow(0.95, h), in hundredths
RECURSIVE Discount(_)
Discount(h) == IF h = 0 THEN 100 ELSE (95 * Discount(h - 1)) \div 100

\* the loop of fitnessFunction from rollout slot h on (h = 1 is the first):
\* the cost in hundredths
RECURSIVE Rollout(_, _, _, _, _, _, _)
Rollout(alg, horizon, sensor, act, predictions, simState, h) ==
  IF h > Min2(horizon, Len(predictions.arrivals)) THEN 0
  ELSE
    LET arrival == predictions.arrivals[h]
        harvest == predictions.harvests[h]
        channelGain == predictions.channelGains[h]
        delta == sensor.delta_cycles_per_bit
        C_l == (act.f_u * alg.tau) \div delta
        C_o == alg.bandwidth
                 * Log2(alg.noise_power_W + act.p_u * channelGain,
                        alg.noise_power_W)
                 * alg.tau
        localEnergy == alg.theta * act.f_u * act.f_u * act.f_u * alg.tau
        txEnergy == act.p_u * alg.tau
        totalEnergy == localEnergy + txEnergy
        effectiveEnergy == Max2(0, localEnergy - harvest)
        localArrival == ((GeneScale - act.alpha) * arrival) \div GeneScale
        offloadArrival == (act.alpha * arrival) \div GeneScale
        H_l == Max2(0, simState.H_l - C_l) + localArrival
        H_o == Max2(0, simState.H_o - C_o) + offloadArrival
        B_u == Max2(0, simState.B_u - effectiveEnergy) + harvest
        drift == H_l * (localArrival - C_l) + H_o * (offloadArrival - C_o)
        slotCost == alg.V * totalEnergy + drift
        penalties == (IF B_u < 0 THEN Penalty ELSE 0)
                     + (IF act.f_u > sensor.f_max_Hz THEN Penalty ELSE 0)
                     + (IF act.p_u > sensor.p_max_W THEN Penalty ELSE 0)
    IN  100 * penalties + Discount(h - 1) * slotCost
          + Rollout(alg, horizon, sensor, act, predictions,
                    [simState EXCEPT !.H_l = H_l, !.H_o = H_o, !.B_u = B_u],
                    h + 1)

\* PTSRAAlgorithm.fitnessFunction on the genes of an individual
fitnessFunction(alg, horizon, sensor, state, predictions, genes) ==
  Rollout(alg, horizon, sensor, Denormalize(sensor, genes), predictions,
          state, 1)

\* initializePopulation on the draws draws[i][j] of gene j of individual i
initializePopulation(populationSize, draws) ==
  [i \in 1..populationSize |->
     [genes |-> [j \in 1..Len(bounds) |->
                   uniform(draws[i][j], bounds[j][1], bounds[j][2])],
      fitness |-> Infinity]]

\* the indices Math.floor(random() * length) can draw
TournamentIdx(length) == {(u * length) \div 100 : u \in URand}

\* tournamentSelect on the three indices idx it draws
tournamentSelect(population, idx) ==
  LET first == population[idx[1] + 1]
      second == IF population[idx[2] + 1].fitness < first.fitness
                THEN population[idx[2] + 1] ELSE first
  IN  IF population[idx[3] + 1].fitness < second.fitness
      THEN population[idx[3] + 1] ELSE second

\* crossover on the draws us[i] of gene i
crossover(parent1, parent2, us) ==
  [genes |-> [i \in 1..Len(parent1.genes) |->
                IF us[i] < 50 THEN parent1.genes[i] ELSE parent2.genes[i]],
   fitness |-> Infinity]

\* what mutate adds to gene i: gaussian(0, range * mutationScale), with
\* mutationScale = 0.1
Mutation(i, z) == gaussian(z, 0, bounds[i][2] - bounds[i][1]) \div 10

\* a variant of mutate that leaves the bounds check out
mutateUnchecked(individual, mutationProb, us, zs) ==
  [genes |-> [i \in 1..Len(individual.genes) |->
                IF us[i] < mutationProb
                THEN individual.genes[i] + Mutation(i, zs[i])
                ELSE individual.genes[i]],
   fitness |-> Infinity]

\* mutate on the draws us[i] and the Box-Muller values zs[i] of gene i
mutate(individual, mutationProb, us, zs) ==
  [genes |-> [i \in 1..Len(individual.genes) |->
                IF us[i] < mutationProb
                THEN Max2(bounds[i][1],
                          Min2(bounds[i][2],
                               individual.genes[i] + Mutation(i, zs[i])))
                ELSE individual.genes[i]],
   fitness |-> Infinity]

\* evaluatePopulation: every individual gets the fitness of its genes
evaluatePopulation(population, alg, horizon, sensor, state, predictions) ==
  [i \in 1..Len(population) |->
     [population[i] EXCEPT
        !.fitness = fitnessFunction(alg, horizon, sensor, state, predictions,
                                    population[i].genes)]]

\* the infeasibleCount evaluatePopulation returns: the individuals with a
\* fitness above 1e5 (fitness is in hundredths)
infeasibleCount(population) ==
  Cardinality({i \in 1..Len(population) :
                 population[i].fitness > 100 * InfeasibleAbove})

\* a variant of the sort that leaves the population in the order it has
KeepOrder(population) == population

\* population.sort((a, b) => a.fitness - b.fitness): ascending and stable
RECURSIVE SortByFitness(_)
SortByFitness(population) ==
  IF population = <<>> THEN <<>>
  ELSE LET n == Len(population)
           sorted == SortByFitness(SubSeq(population, 1, n - 1))
           x == population[n]
           k == Cardinality({i \in 1..(n - 1) : sorted[i].fitness <= x.fitness})
       IN  SubSeq(sorted, 1, k) \o <<x>> \o SubSeq(sorted, k + 1, n - 1)

----------------------------------------------------------------------------
(* One decision of each policy on a given state: the Baseline rules, then    *)
(* optimizeAlpha with GeneticOptimizer.optimize step by step                  *)

\* the Box-Muller values mutate is given
MutationZ == {0 - 6, 6}

GAConfigs ==
  {[ExperimentConfig(
      <<SensorConfig("sensor-1", "fractional", 1, Fixed4, Constant4, 0, 8)>>,
      <<EdgeServer>>, 1, TRUE)
    EXCEPT !.optimizer = [population |-> 3, generations |-> 3,
                          mutation_prob |-> 5]]}

\* slot-start states: empty, moderate, and queues so long that every candidate
\* costs more than 1e5
GAStates ==
  {[H_l |-> 0, H_o |-> 0, H_k |-> 0, B_u |-> 0],
   [H_l |-> 40, H_o |-> 40, H_k |-> 1, B_u |-> 100],
   [H_l |-> 100000, H_o |-> 100000, H_k |-> 0, B_u |-> 0]}

GAPredictions ==
  {[arrivals |-> <<4>>, harvests |-> <<4>>, channelGains |-> <<2>>]}

NoParent == [genes |-> <<>>, fitness |-> Infinity]

InitGA ==
  /\ config \in GAConfigs
  /\ pc = "baseline"
  /\ status = "running"
  /\ current_slot = 0
  /\ tsra_results = <<>>
  /\ ptsra_results = <<>>
  /\ optimizer_log = <<>>
  /\ slot = 0
  /\ \E state \in GAStates : tsraStates = <<state>> /\ ptsraStates = <<state>>
  /\ history = <<>>
  /\ \E predictions \in GAPredictions :
       pt = [channelGain |-> predictions.channelGains[1],
             predictions |-> predictions, baseline |-> <<>>, act |-> <<>>]
  /\ opt = NoOpt
  /\ error = "none"
  /\ decisions = [tsra |-> <<>>, ptsra |-> <<>>]
  /\ realized = [tsra |-> <<>>, ptsra |-> <<>>]
  /\ cancelRequested = FALSE

\* the sensor, its state and the fitness function of the call
GASensor == config.sensors[1]
GAEvaluated(population) ==
  evaluatePopulation(population, Alg(config), config.prediction_horizon,
                     GASensor, ptsraStates[1], pt.predictions)

GAFrame ==
  UNCHANGED <<config, status, current_slot, tsra_results, ptsra_results,
              slot, tsraStates, ptsraStates, history, error,
              decisions, realized, cancelRequested>>

GAUnchanged == GAFrame /\ UNCHANGED optimizer_log

\* the decisions of the Baseline rules on the state
BaselineDecide ==
  /\ pc = "baseline"
  /\ pt' = [pt EXCEPT !.baseline = Fallback(Alg(config), GASensor,
                                            tsraStates[1], pt.channelGain)]
  /\ pc' = "optimize"
  /\ UNCHANGED opt
  /\ GAUnchanged

\* lines 567-576 of optimize
GAStart ==
  /\ pc = "optimize"
  /\ \E draws \in [1..config.optimizer.population ->
                     [1..Len(bounds) -> URand]] :
       LET population ==
             SortByFitness(GAEvaluated(
               initializePopulation(config.optimizer.population, draws)))
       IN  opt' = [gen |-> 0, population |-> population,
                   newPopulation |-> <<>>, bestEver |-> population[1],
                   stagnationCount |-> 0, parent1 |-> NoParent,
                   parent2 |-> NoParent, child |-> NoParent,
                   unchecked |-> <<>>]
  /\ pc' = "ga_generation"
  /\ UNCHANGED pt
  /\ GAUnchanged

\* lines 578-607: the loop test, the generation callback, which appends the
\* log entry of optimizeAlpha (p-tsra.ts 251-262, simulator.ts 106), the
\* improvement check, the early termination and the elites of the next
\* population
GAGeneration ==
  /\ pc = "ga_generation"
  /\ LET populationSize == config.optimizer.population
         head == [population0 |-> opt.population[1], bestEver |-> opt.bestEver,
                  stagnationCount |-> opt.stagnationCount]
         stagnationCount == Stagnation(head)
         bestEver == UpdateBestEver(opt.bestEver, opt.population[1])
     IN  IF opt.gen >= config.optimizer.generations
         THEN pc' = "ga_return" /\ UNCHANGED <<opt, optimizer_log>>
         ELSE /\ optimizer_log' =
                   Append(optimizer_log,
                          [slot |-> slot, generation |-> opt.gen,
                           best_fitness |-> opt.population[1].fitness,
                           infeasible_count |-> infeasibleCount(opt.population)])
              /\ opt' = [opt EXCEPT
                           !.stagnationCount = stagnationCount,
                           !.bestEver = bestEver,
                           !.newPopulation =
                             IF populationSize < eliteCount(populationSize)
                             THEN <<>>
                             ELSE SubSeq(opt.population, 1,
                                         eliteCount(populationSize))]
              /\ pc' = IF stagnationCount
                            >= maxStagnation(config.optimizer.generations)
                       THEN "ga_return"
                       ELSE IF populationSize < eliteCount(populationSize)
                       THEN "ga_thrown"
                       ELSE "ga_breed"
  /\ UNCHANGED pt
  /\ GAFrame

\* lines 610-612: the two tournaments of a child
GASelect ==
  /\ pc = "ga_breed"
  /\ Len(opt.newPopulation) < config.optimizer.population
  /\ \E idx1, idx2 \in [1..3 -> TournamentIdx(Len(opt.population))] :
       opt' = [opt EXCEPT !.parent1 = tournamentSelect(opt.population, idx1),
                          !.parent2 = tournamentSelect(opt.population, idx2)]
  /\ pc' = "ga_crossover"
  /\ UNCHANGED pt
  /\ GAUnchanged

\* line 614
GACrossover ==
  /\ pc = "ga_crossover"
  /\ \E us \in [1..Len(bounds) -> URand] :
       opt' = [opt EXCEPT !.child = crossover(opt.parent1, opt.parent2, us),
                          !.parent1 = NoParent, !.parent2 = NoParent]
  /\ pc' = "ga_mutate"
  /\ UNCHANGED pt
  /\ GAUnchanged

\* lines 615-617; unchecked keeps genes[i] + mutation as computed before the
\* bounds check
GAMutate ==
  /\ pc = "ga_mutate"
  /\ \E us \in [1..Len(bounds) -> URand], zs \in [1..Len(bounds) -> MutationZ] :
       LET child == mutate(opt.child, config.optimizer.mutation_prob, us, zs)
       IN  opt' = [opt EXCEPT
                     !.child = NoParent,
                     !.unchecked =
                       mutateUnchecked(opt.child,
                                       config.optimizer.mutation_prob,
                                       us, zs).genes,
                     !.newPopulation = Append(@, child)]
  /\ pc' = "ga_breed"
  /\ UNCHANGED pt
  /\ GAUnchanged

\* lines 620-631: the new population is evaluated and sorted, bestEver is
\* updated, and the next generation begins
GAEvaluate ==
  /\ pc = "ga_breed"
  /\ Len(opt.newPopulation) >= config.optimizer.population
  /\ LET population == SortByFitness(GAEvaluated(opt.newPopulation))
     IN  opt' = [opt EXCEPT !.population = population,
                            !.newPopulation = <<>>,
                            !.bestEver = UpdateBestEver(@, population[1]),
                            !.gen = @ + 1]
  /\ pc' = "ga_generation"
  /\ UNCHANGED pt
  /\ GAUnchanged

\* lines 634-639 of optimize and lines 265-270 of optimizeAlpha
GAReturn ==
  /\ pc = "ga_return"
  /\ pt' = [pt EXCEPT !.act = Denormalize(GASensor, opt.bestEver.genes)]
  /\ pc' = "ga_returned"
  /\ UNCHANGED opt
  /\ GAUnchanged

NextGA ==
  \/ BaselineDecide
  \/ GAStart
  \/ GAGeneration
  \/ GASelect
  \/ GACrossover
  \/ GAMutate
  \/ GAEvaluate
  \/ GAReturn

SpecGA == InitGA /\ [][NextGA]_vars

----------------------------------------------------------------------------
(* The history windows over a long run: the loop of executeSlotPredictive    *)
(* reduced to the observations of each sensor and the updateHistory call     *)

\* the slots of the long run: more than the window holds
MaxHistorySlots == 52

\* the configurations with two sensors and a progress callback, among them
\* the one with one id twice
HistoryConfigs == {cfg \in Configs : Len(cfg.sensors) = 2 /\ cfg.progressCallback}

\* the observations of sensor i in slot t: every value of the run is different
Observation(t, i, n) ==
  [arrival |-> 3 * (t * n + i - 1),
   harvest |-> 3 * (t * n + i - 1) + 1,
   channelGain |-> 3 * (t * n + i - 1) + 2]

InitHistory ==
  /\ config \in HistoryConfigs
  /\ pc = "history"
  /\ status = "running"
  /\ current_slot = 0
  /\ tsra_results = <<>>
  /\ ptsra_results = <<>>
  /\ optimizer_log = <<>>
  /\ slot = 0
  /\ tsraStates = <<>>
  /\ ptsraStates = <<>>
  /\ history = <<>>
  /\ pt = [i |-> 1]
  /\ opt = NoOpt
  /\ error = "none"
  /\ decisions = [tsra |-> <<>>, ptsra |-> <<>>]
  /\ realized = [tsra |-> <<>>,
                 ptsra |-> [i \in 1..Len(config.sensors) |-> <<>>]]
  /\ cancelRequested = FALSE

\* lines 297-305 of executeSlotPredictive for sensor pt.i of slot slot;
\* realized.ptsra[i] keeps what sensor i has observed
UpdateHistoryCall ==
  /\ pc = "history"
  /\ slot < MaxHistorySlots
  /\ LET n == Len(config.sensors)
         sensor == config.sensors[pt.i]
         ev == Observation(slot, pt.i, n)
     IN  /\ history' = updateHistory(history, sensor.id, ev.arrival,
                                     ev.harvest, ev.channelGain)
         /\ realized' = [realized EXCEPT !.ptsra[pt.i] = Append(@, ev)]
         /\ pt' = [i |-> IF pt.i = n THEN 1 ELSE pt.i + 1]
         /\ slot' = IF pt.i = n THEN slot + 1 ELSE slot
  /\ UNCHANGED <<config, pc, status, current_slot, tsra_results,
                 ptsra_results, optimizer_log, tsraStates, ptsraStates, opt,
                 error, decisions, cancelRequested>>

NextHistory == UpdateHistoryCall

SpecHistory == InitHistory /\ [][NextHistory]_vars

----------------------------------------------------------------------------
(* The sensor list of ExperimentBuilder: config.sensors is the list,         *)
(* pt.numSensors the number field                                             *)

\* the longest list the builder is taken to
MaxBuilderSensors == 4

\* `sensor-${k}`
SensorId(k) ==
  <<"sensor-1", "sensor-2", "sensor-3", "sensor-4", "sensor-5", "sensor-6",
    "sensor-7">>[k]

\* generateRandomSensor(id, random) for the k-th draw of the generator: a
\* sensor is its id and the parameters drawn for it
GeneratedSensor(k) == [id |-> SensorId(k), params |-> k]

InitBuilder ==
  /\ config = [sensors |-> <<>>]
  /\ pc = "builder"
  /\ status = "idle"
  /\ current_slot = 0
  /\ tsra_results = <<>>
  /\ ptsra_results = <<>>
  /\ optimizer_log = <<>>
  /\ slot = 0
  /\ tsraStates = <<>>
  /\ ptsraStates = <<>>
  /\ history = <<>>
  /\ pt = [numSensors |-> 2]
  /\ opt = NoOpt
  /\ error = "none"
  /\ decisions = [tsra |-> <<>>, ptsra |-> <<>>]
  /\ realized = [tsra |-> <<>>, ptsra |-> <<>>]
  /\ cancelRequested = FALSE

BuilderFrame ==
  UNCHANGED <<status, current_slot, tsra_results, ptsra_results, optimizer_log,
              slot, tsraStates, ptsraStates, history, opt, error, decisions,
              realized, cancelRequested>>

\* the number field is edited (line 291)
SetNumSensors ==
  /\ pc = "builder"
  /\ \E n \in 0..(MaxBuilderSensors + 1) :
       pt' = [numSensors |-> IF n = 0 THEN 1 ELSE n]
  /\ UNCHANGED <<config, pc>>
  /\ BuilderFrame

\* initializeSensors(n, seed)
initializeSensors(n) == [i \in 1..n |-> GeneratedSensor(i)]

\* handleNumSensorsSubmit: the list is generated if the number is in 1..20
\* (here: up to MaxBuilderSensors), otherwise a toast is shown
handleNumSensorsSubmit ==
  /\ pc = "builder"
  /\ IF pt.numSensors >= 1 /\ pt.numSensors <= MaxBuilderSensors
     THEN config' = [config EXCEPT !.sensors = initializeSensors(pt.numSensors)]
     ELSE UNCHANGED config
  /\ UNCHANGED <<pc, pt>>
  /\ BuilderFrame

\* duplicateSensor(index): a copy of the sensor with the id
\* `sensor-${sensors.length + 1}` is appended
duplicateSensor ==
  /\ pc = "builder"
  /\ Len(config.sensors) < MaxBuilderSensors
  /\ \E index \in 1..Len(config.sensors) :
       LET source == config.sensors[index]
           newSensor == [source EXCEPT !.id = SensorId(Len(config.sensors) + 1)]
       IN  /\ config' = [config EXCEPT !.sensors = Append(@, newSensor)]
           /\ pt' = [numSensors |-> Len(config.sensors) + 1]
  /\ UNCHANGED pc
  /\ BuilderFrame

\* removeSensor(index): the sensor is removed unless it is the only one
removeSensor ==
  /\ pc = "builder"
  /\ \E index \in 1..Len(config.sensors) :
       IF Len(config.sensors) > 1
       THEN LET newSensors ==
                  SubSeq(config.sensors, 1, index - 1)
                    \o SubSeq(config.sensors, index + 1, Len(config.sensors))
            IN  /\ config' = [config EXCEPT !.sensors = newSensors]
                /\ pt' = [numSensors |-> Len(newSensors)]
       ELSE UNCHANGED <<config, pt>>
  /\ UNCHANGED pc
  /\ BuilderFrame

\* handleStartExperiment: a non-empty list is handed to the simulation
handleStartExperiment ==
  /\ pc = "builder"
  /\ pc' = IF Len(config.sensors) = 0 THEN "builder" ELSE "started"
  /\ UNCHANGED <<config, pt>>
  /\ BuilderFrame

NextBuilder ==
  \/ SetNumSensors
  \/ handleNumSensorsSubmit
  \/ duplicateSensor
  \/ removeSensor
  \/ handleStartExperiment

SpecBuilder == InitBuilder /\ [][NextBuilder]_vars

----------------------------------------------------------------------------
(* SeededRandom.random (random.ts).  A 32-bit word is a pair of 16-bit       *)
(* limbs <<low, high>>; the state field, a double, is an integer of four     *)
(* limbs, least significant first, rounded as a double is.                    *)

\* the calls of random() a run of the generator is followed for
MaxRandomCalls == 24

Limb == 65536

\* a ^ b and a | b on numbers of n bits
RECURSIVE XorN(_, _, _)
XorN(a, b, n) ==
  IF n = 0 THEN 0
  ELSE (((a % 2) + (b % 2)) % 2) + 2 * XorN(a \div 2, b \div 2, n - 1)

RECURSIVE OrN(_, _, _)
OrN(a, b, n) ==
  IF n = 0 THEN 0
  ELSE (IF (a % 2) + (b % 2) > 0 THEN 1 ELSE 0)
         + 2 * OrN(a \div 2, b \div 2, n - 1)

Xor32(x, y) == <<XorN(x[1], y[1], 16), XorN(x[2], y[2], 16)>>
Or32(x, y) == <<OrN(x[1], y[1], 16), OrN(x[2], y[2], 16)>>

\* x >>> n, 0 < n < 16
Shr32(x, n) ==
  <<(x[1] \div (2 ^ n)) + (x[2] % (2 ^ n)) * (2 ^ (16 - n)),
    x[2] \div (2 ^ n)>>

\* (x + y) | 0: the sum truncated to 32 bits
Add32(x, y) ==
  <<(x[1] + y[1]) % Limb,
    (x[2] + y[2] + ((x[1] + y[1]) \div Limb)) % Limb>>

\* the product of two limbs, a word
MulLimb(a, b) ==
  LET p0 == a * (b % 256)
      p1 == a * (b \div 256)
      low == p0 + (p1 % 256) * 256
  IN  <<low % Limb, ((p1 \div 256) + (low \div Limb)) % Limb>>

\* Math.imul: the low 32 bits of the product
imul(x, y) ==
  LET ll == MulLimb(x[1], y[1])
  IN  <<ll[1],
        (ll[2] + MulLimb(x[1], y[2])[1] + MulLimb(x[2], y[1])[1]) % Limb>>

\* lines 19-21 on the 32-bit value of t: the numerator of the result, the
\* denominator 4294967296 being fixed
Mix(t) ==
  LET t1 == imul(Xor32(t, Shr32(t, 15)), Or32(t, <<1, 0>>))
      t2 == Xor32(t1, Add32(t1, imul(Xor32(t1, Shr32(t1, 7)),
                                     Or32(t1, <<61, 0>>))))
  IN  Xor32(t2, Shr32(t2, 14))

\* 0x6d2b79f5
Increment == <<31221, 27947, 0, 0>>

\* the exact sum of two integers of four limbs
AddExact(x, y) ==
  LET c1 == (x[1] + y[1]) \div Limb
      c2 == (x[2] + y[2] + c1) \div Limb
      c3 == (x[3] + y[3] + c2) \div Limb
  IN  <<(x[1] + y[1]) % Limb, (x[2] + y[2] + c1) % Limb,
        (x[3] + y[3] + c2) % Limb, (x[4] + y[4] + c3) % Limb>>

\* the bits of an integer below the 53 a double keeps: bit 53 is bit 5 of the
\* fourth limb
RECURSIVE Dropped(_)
Dropped(high) == IF high < 32 THEN 0 ELSE 1 + Dropped(high \div 2)

\* the double nearest to an integer, ties to the even significand
RoundToDouble(x) ==
  LET d == Dropped(x[4])
      rem == x[1] % (2 ^ d)
      odd == ((x[1] \div (2 ^ d)) % 2) = 1
      down == [x EXCEPT ![1] = @ - rem]
      up == AddExact(down, <<2 ^ d, 0, 0, 0>>)
  IN  IF d = 0 THEN x
      ELSE IF 2 * rem > 2 ^ d \/ (2 * rem = 2 ^ d /\ odd) THEN up ELSE down

\* ToInt32 / ToUint32 of the state: its low 32 bits
ToInt32(x) == <<x[1], x[2]>>

\* seed >>> 0 for an integer seed
ToUint32(n) ==
  IF n >= 0 THEN <<n % Limb, n \div Limb>>
  ELSE LET m == (n + 2147483647) + 1
       IN  <<m % Limb, (m \div Limb) + 32768>>

\* k times an integer of four limbs, exactly
RECURSIVE Times(_, _)
Times(x, k) ==
  IF k = 0 THEN <<0, 0, 0, 0>>
  ELSE IF (k % 2) = 1 THEN AddExact(x, Times(AddExact(x, x), k \div 2))
  ELSE Times(AddExact(x, x), k \div 2)

\* the seeds: the builder's default, zero, and a negative one
Seeds == {42, 0, 0 - 1}

\* the calls already made when the run is taken up: none, or so many that the
\* state is close to 2^53
CallsBefore == {0, 4917750}

\* new SeededRandom(seed) followed by calls of random(): while the state is
\* below 2^53 every addition of line 18 is exact, so the state is
\* seed + calls * 0x6d2b79f5
StateAfter(seed, calls) ==
  LET seed32 == ToUint32(seed)
  IN  AddExact(<<seed32[1], seed32[2], 0, 0>>, Times(Increment, calls))

InitRandom ==
  /\ \E seed \in Seeds, calls \in CallsBefore :
       /\ config = [seed |-> seed]
       /\ opt = [state |-> StateAfter(seed, calls), k |-> calls, out |-> <<>>]
       /\ Dropped(StateAfter(seed, calls)[4]) = 0
  /\ pc = "random"
  /\ status = "idle"
  /\ current_slot = 0
  /\ tsra_results = <<>>
  /\ ptsra_results = <<>>
  /\ optimizer_log = <<>>
  /\ slot = 0
  /\ tsraStates = <<>>
  /\ ptsraStates = <<>>
  /\ history = <<>>
  /\ pt = NoCall
  /\ error = "none"
  /\ decisions = [tsra |-> <<>>, ptsra |-> <<>>]
  /\ realized = [tsra |-> <<>>, ptsra |-> <<>>]
  /\ cancelRequested = FALSE

\* random(): this.state += 0x6d2b79f5 is an addition of doubles; slot counts
\* the calls followed
random ==
  /\ pc = "random"
  /\ slot < MaxRandomCalls
  /\ LET state == RoundToDouble(AddExact(opt.state, Increment))
     IN  opt' = [state |-> state, k |-> opt.k + 1, out |-> Mix(ToInt32(state))]
  /\ slot' = slot + 1
  /\ UNCHANGED <<config, pc, status, current_slot, tsra_results,
                 ptsra_results, optimizer_log, tsraStates, ptsraStates,
                 history, pt, error, decisions, realized, cancelRequested>>

NextRandom == random

SpecRandom == InitRandom /\ [][NextRandom]_vars

----------------------------------------------------------------------------
(* Reading the records of a run *)

Range(f) == {f[x] : x \in DOMAIN f}

\* the positions <<s, i>> of the sensor records of a result list
Positions(results) ==
  UNION {{<<s, i>> : i \in 1..Len(results[s].sensor_results)} :
           s \in 1..Len(results)}

\* the queues and the battery a sensor record reports
StateOf(rec) ==
  [H_l |-> rec.H_l, H_o |-> rec.H_o, H_k |-> rec.H_k, B_u |-> rec.battery_J]

\* the state sensor i had when the slot of results[s] began
PrevState(results, s, i) ==
  IF s = 1 THEN initializeSensorStates(config.sensors)[i]
  ELSE StateOf(results[s - 1].sensor_results[i])

NonNegative(st) == st.H_l >= 0 /\ st.H_o >= 0 /\ st.H_k >= 0 /\ st.B_u >= 0

\* the states of the Predictive call in progress
PendingStates == IF pc \in {"sensor", "generation", "commit"}
                 THEN Range(pt.newStates) ELSE {}

----------------------------------------------------------------------------
(* Queue and battery dynamics *)

\* C1: under both policies H_l, H_o, H_k and the battery B of every sensor
\* are non-negative in every committed state and in every record
C1_NonNegative ==
  /\ \A st \in Range(tsraStates) \cup Range(ptsraStates) \cup PendingStates :
       NonNegative(st)
  /\ \A results \in {tsra_results, ptsra_results} :
       \A p \in Positions(results) :
         NonNegative(StateOf(results[p[1]].sensor_results[p[2]]))

\* both policies have committed a slot in which a sensor's local energy
\* exceeded its battery, so that the clip at zero acted
C1_Witness ==
  \A results \in {tsra_results, ptsra_results} :
    \E p \in Positions(results) :
      LET rec == results[p[1]].sensor_results[p[2]]
      IN  /\ PrevState(results, p[1], p[2]).B_u < rec.local_energy_J
          /\ rec.battery_J = rec.harvest_J


\* the recurrences of the system model, evaluated on a slot-start state st,
\* the recorded decision (alpha in units of 1/GeneScale, f, p, xi) and the
\* draws ev of the slot; the transmission energy is not part of them
Recurrence(alg, sensor, edgeServer, st, alpha, f, p, xi, ev) ==
  LET tau == alg.tau
      delta == sensor.delta_cycles_per_bit
      C_l == (f * tau) \div delta
      C_o == alg.bandwidth
               * Log2(alg.noise_power_W + p * ev.channelGain, alg.noise_power_W)
               * tau
      C_k == (xi[1] * edgeServer.f_k_Hz * tau) \div (xi[2] * delta)
      E_l == alg.theta * f * f * f * tau
      clip(x) == IF x < 0 THEN 0 ELSE x
  IN  [H_l |-> clip(st.H_l - C_l) + ((GeneScale - alpha) * ev.arrival) \div GeneScale,
       H_o |-> clip(st.H_o - C_o) + (alpha * ev.arrival) \div GeneScale,
       H_k |-> clip(st.H_k - C_k) + C_o,
       B_u |-> clip(st.B_u - E_l) + ev.harvest]

\* record <<s, i>> of a result list follows the recurrences on the draws evs
\* realized in its slot
FollowsRecurrence(results, evs, p) ==
  LET rec == results[p[1]].sensor_results[p[2]]
      ev == evs[p[1]][p[2]]
  IN  /\ rec.arrival_bits = ev.arrival
      /\ rec.harvest_J = ev.harvest
      /\ StateOf(rec) =
           Recurrence(Alg(config), config.sensors[p[2]], FirstEdgeServer(config.edge_servers),
                      PrevState(results, p[1], p[2]), rec.alpha, rec.f_cpu_Hz,
                      rec.p_tx_W, results[p[1]].edge_results.ES_allocations[p[2]].xi, ev)

\* C2: under both policies every committed state is the recurrence
\* H_l' = max(0, H_l - C_l) + (1 - alpha) A, H_o' = max(0, H_o - C_o) + alpha A,
\* H_k' = max(0, H_k - C_k) + C_o, B' = max(0, B - E_l) + E_harvest on the
\* arrival, harvest and channel gain realized in the slot; the transmission
\* energy is recorded and not deducted from the battery
C2_RecurrenceOnRealized ==
  /\ \A p \in Positions(tsra_results) :
       FollowsRecurrence(tsra_results, realized.tsra, p)
  /\ \A p \in Positions(ptsra_results) :
       FollowsRecurrence(ptsra_results, realized.ptsra, p)
  /\ Len(tsra_results) > 0 =>
       tsraStates = [i \in 1..Len(config.sensors) |->
                       StateOf(tsra_results[Len(tsra_results)].sensor_results[i])]
  /\ Len(ptsra_results) > 0 /\ pc \notin {"sensor", "generation", "commit"} =>
       ptsraStates = [i \in 1..Len(config.sensors) |->
                        StateOf(ptsra_results[Len(ptsra_results)].sensor_results[i])]

\* a slot of the Predictive policy decided by the optimizer, and a slot of the
\* Baseline policy, in which energy was spent on transmission while the
\* battery stayed above its local energy: deducting it would show
C2_Witness ==
  /\ config.prediction_horizon > 0
  /\ \A results \in {tsra_results, ptsra_results} :
       \E p \in Positions(results) :
         LET rec == results[p[1]].sensor_results[p[2]]
         IN  /\ rec.tx_energy_J > 0
             /\ rec.arrival_bits > 0
             /\ PrevState(results, p[1], p[2]).B_u > rec.local_energy_J


\* what the last Baseline slot added to H_l and to H_o of sensor i, beyond
\* the clipped service
BaselineAdded(i) ==
  LET s == Len(tsra_results)
      rec == tsra_results[s].sensor_results[i]
      st == PrevState(tsra_results, s, i)
      none == Recurrence(Alg(config), config.sensors[i],
                         FirstEdgeServer(config.edge_servers), st, 0,
                         rec.f_cpu_Hz, rec.p_tx_W,
                         tsra_results[s].edge_results.ES_allocations[i].xi,
                         [realized.tsra[s][i] EXCEPT !.arrival = 0])
  IN  [H_l |-> rec.H_l - none.H_l, H_o |-> rec.H_o - none.H_o]

\* C3: the Baseline policy decides kappa = 0 exactly when H_o >= H_l at the
\* start of the slot, and the whole arrival of the slot enters H_l when
\* kappa = 0 and H_o when kappa = 1
C3_BaselineScheduling ==
  Len(tsra_results) > 0 =>
    \A i \in 1..Len(config.sensors) :
      LET s == Len(tsra_results)
          st == PrevState(tsra_results, s, i)
          kappa == decisions.tsra[i].kappa
          arrival == realized.tsra[s][i].arrival
      IN  /\ kappa \in {0, 1}
          /\ kappa = 0 <=> st.H_o >= st.H_l
          /\ BaselineAdded(i) = IF kappa = 0
                                THEN [H_l |-> arrival, H_o |-> 0]
                                ELSE [H_l |-> 0, H_o |-> arrival]

\* a sensor whose first Baseline slot scheduled a positive arrival locally on
\* a tie and whose latest Baseline slot offloaded a positive arrival
C3_Witness ==
  /\ Len(tsra_results) > 1
  /\ \E i \in 1..Len(config.sensors) :
       LET s == Len(tsra_results)
           st == PrevState(tsra_results, 1, i)
       IN  /\ st.H_o = st.H_l
           /\ realized.tsra[1][i].arrival > 0
           /\ tsra_results[1].sensor_results[i].H_l > st.H_l
           /\ decisions.tsra[i].kappa = 1
           /\ realized.tsra[s][i].arrival > 0


----------------------------------------------------------------------------
(* Decision bounds *)

\* an action [alpha, f_u, p_u] respects the sensor's f_max and p_max
WithinLimits(sensor, act) ==
  /\ 0 <= act.f_u /\ act.f_u <= sensor.f_max_Hz
  /\ 0 <= act.p_u /\ act.p_u <= sensor.p_max_W

\* every gene lies inside its bounds
InBounds(genes) ==
  \A i \in 1..Len(genes) : bounds[i][1] <= genes[i] /\ genes[i] <= bounds[i][2]

\* the individuals the optimizer holds
Held ==
  IF opt = NoOpt THEN {}
  ELSE Range(opt.population) \cup Range(opt.newPopulation)
         \cup {opt.bestEver, opt.parent1, opt.parent2, opt.child}

\* C4: the CPU frequency and the transmit power decided by either policy
\* satisfy 0 <= f_u <= f_max and 0 <= p_u <= p_max; under the Predictive
\* policy every gene of every individual stays inside its bounds [0,1],
\* [0.1,1], [0,1] through crossover and mutation
C4_DecisionBounds ==
  /\ pt.baseline # <<>> => WithinLimits(GASensor, pt.baseline)
  /\ pt.act # <<>> => WithinLimits(GASensor, pt.act)
  /\ \A individual \in Held : InBounds(individual.genes)
  /\ bounds = <<<<0, GeneScale>>, <<GeneScale \div 10, GeneScale>>,
                <<0, GeneScale>>>>

\* the optimizer has returned after a mutation that left the bounds on both
\* sides before the bounds check, and the Baseline rules were capped by f_max
\* and p_max
C4_Witness ==
  /\ pc = "ga_returned"
  /\ pt.baseline.f_u = GASensor.f_max_Hz
  /\ pt.baseline.p_u = GASensor.p_max_W
  /\ \E i, j \in 1..Len(bounds) :
       opt.unchecked[i] > bounds[i][2] /\ opt.unchecked[j] < bounds[j][1]
  /\ \E individual \in Range(opt.population) :
       \E i \in 1..Len(bounds) : individual.genes[i] = bounds[i][2]

----------------------------------------------------------------------------
(* Edge-server allocation *)

\* fractions <<num, den>> with den > 0
FracLeq(a, b) == a[1] * b[2] <= b[1] * a[2]
FracAdd(a, b) == <<a[1] * b[2] + b[1] * a[2], a[2] * b[2]>>
RECURSIVE FracSum(_)
FracSum(fs) == IF fs = <<>> THEN <<0, 1>> ELSE FracAdd(Head(fs), FracSum(Tail(fs)))

\* the shares the slot of results[s] records follow the rule on the H_k of
\* its slot-start states
SharesFollowRule(results, s) ==
  LET n == Len(config.sensors)
      w(i) == config.sensors[i].priority_weight
      H_k(i) == PrevState(results, s, i).H_k
      total == SumSeq([i \in 1..n |-> w(i) * H_k(i)])
      xi(i) == results[s].edge_results.ES_allocations[i].xi
  IN  /\ \A i \in 1..n :
           /\ IF total > 0 THEN xi(i)[1] * total = w(i) * H_k(i) * xi(i)[2]
                           ELSE xi(i)[1] * n = xi(i)[2]
           /\ FracLeq(<<0, 1>>, xi(i)) /\ FracLeq(xi(i), <<1, 1>>)
      /\ FracLeq(FracSum([i \in 1..n |-> xi(i)]), <<1, 1>>)

\* C5: edgeServerAllocation gives sensor u the share w_u H_k,u / sum_v w_v H_k,v
\* when the sum is positive and 1/n when it is zero; every share is in [0, 1]
\* and the shares of a slot sum to at most 1
C5_EdgeShares ==
  \A results \in {tsra_results, ptsra_results} :
    \A s \in 1..Len(results) : SharesFollowRule(results, s)


----------------------------------------------------------------------------
(* Offload modes *)

\* C6: for a sensor in binary mode the recorded alpha is 0 or 1 in every slot
\* of both policies; an alpha strictly between 0 and 1 is recorded for
\* sensors in fractional mode only
C6_BinaryAlpha ==
  \A results \in {tsra_results, ptsra_results} :
    \A p \in Positions(results) :
      config.sensors[p[2]].offload_mode = "binary" =>
        results[p[1]].sensor_results[p[2]].alpha \in {0, GeneScale}


----------------------------------------------------------------------------
(* Horizon 0 *)

\* the slot-start states of the slot of results[s]
PrevStates(results, s) ==
  [i \in 1..Len(config.sensors) |-> PrevState(results, s, i)]

\* what a sensor record says of the decision and of the state it led to
Outcome(results, p) ==
  LET rec == results[p[1]].sensor_results[p[2]]
  IN  [alpha |-> rec.alpha, f_u |-> rec.f_cpu_Hz, p_u |-> rec.p_tx_W,
       xi_u |-> results[p[1]].edge_results.ES_allocations[p[2]].xi,
       H_l |-> rec.H_l, H_o |-> rec.H_o, H_k |-> rec.H_k,
       battery_J |-> rec.battery_J]

\* what the Baseline rules decide for sensor i on the slot-start states
\* states and the draws ev, with alpha = kappa
BaselineOutcome(states, i, ev) ==
  LET sensor == config.sensors[i]
      xi == GetXi(edgeServerAllocation(config.sensors, states), sensor.id)
      r == SlotOfSensor(Alg(config), sensor, states[i],
                        FirstEdgeServer(config.edge_servers), xi, ev)
  IN  [alpha |-> r.decision.kappa * GeneScale, f_u |-> r.decision.f_u,
       p_u |-> r.decision.p_u, xi_u |-> xi,
       H_l |-> r.newState.H_l, H_o |-> r.newState.H_o,
       H_k |-> r.newState.H_k, battery_J |-> r.newState.B_u]

\* the two policies drew the same events in the slots 1..s
SameDraws(s) == \A t \in 1..s : realized.tsra[t] = realized.ptsra[t]

\* the Baseline policy records alpha = 0 for a fractional sensor without
\* arrival, whatever kappa is
ZeroArrival(p) ==
  /\ config.sensors[p[2]].offload_mode = "fractional"
  /\ realized.tsra[p[1]][p[2]].arrival = 0

\* C7 as stated: with H = 0 the Predictive records equal the Baseline records
\* decision for decision, and optimizer_log stays empty
C7_EqualRecords ==
  config.prediction_horizon = 0 =>
    /\ optimizer_log = <<>>
    /\ \A p \in Positions(ptsra_results) :
         Outcome(ptsra_results, p) = Outcome(tsra_results, p)

\* C7, amended: with H = 0 the optimizer is never invoked and optimizer_log
\* stays empty; every Predictive record is what the Baseline rules decide
\* (alpha = kappa, f_u, p_u, xi_u and the resulting H_l, H_o, H_k, battery) on
\* the Predictive policy's own slot-start states and own draws; it equals the
\* Baseline record of the slot when the two policies, which draw from
\* independent streams, drew the same events in every slot so far, except
\* for the alpha of a fractional sensor without arrival
C7_FallbackIsBaseline ==
  config.prediction_horizon = 0 =>
    /\ optimizer_log = <<>>
    /\ pc # "generation"
    /\ \A p \in Positions(ptsra_results) :
         /\ Outcome(ptsra_results, p) =
              BaselineOutcome(PrevStates(ptsra_results, p[1]), p[2],
                              realized.ptsra[p[1]][p[2]])
         /\ SameDraws(p[1]) =>
              IF ZeroArrival(p)
              THEN [Outcome(ptsra_results, p) EXCEPT !.alpha = 0] =
                     [Outcome(tsra_results, p) EXCEPT !.alpha = 0]
              ELSE Outcome(ptsra_results, p) = Outcome(tsra_results, p)

\* a run with H = 0 in which both policies drew the same events in every
\* slot and the Predictive policy offloaded a positive arrival
C7_Witness ==
  /\ config.prediction_horizon = 0
  /\ Len(ptsra_results) = config.slots
  /\ SameDraws(config.slots)
  /\ \E p \in Positions(ptsra_results) :
       LET rec == ptsra_results[p[1]].sensor_results[p[2]]
       IN  rec.alpha = GeneScale /\ rec.arrival_bits > 0


----------------------------------------------------------------------------
(* The run: records, completion, errors, callbacks *)

IsPrefix(a, b) == Len(a) <= Len(b) /\ SubSeq(b, 1, Len(a)) = a

\* the slot fields of a result list are 0, 1, ... in order
SlotsInOrder(results) == \A s \in 1..Len(results) : results[s].slot = s - 1

\* C8: a run over N slots in which no slot throws returns status = completed
\* with N Baseline and N Predictive records whose slot fields are 0..N-1 in
\* order; at every progress callback both lists have length current_slot + 1;
\* within a slot the Baseline record is appended before the Predictive one
C8_CompletedRun ==
  /\ pc = "done" /\ error = "none" =>
       /\ status = "completed"
       /\ Len(tsra_results) = config.slots
       /\ Len(ptsra_results) = config.slots
  /\ SlotsInOrder(tsra_results) /\ SlotsInOrder(ptsra_results)
  /\ pc = "progress" =>
       /\ Len(tsra_results) = current_slot + 1
       /\ Len(ptsra_results) = current_slot + 1
  /\ Len(ptsra_results) <= Len(tsra_results)
  /\ Len(tsra_results) <= Len(ptsra_results) + 1
  /\ pc \in {"ptsra", "sensor", "generation", "commit"} =>
       Len(tsra_results) = Len(ptsra_results) + 1

\* a run decided by the optimizer has returned completed with all its records
C8_Witness ==
  /\ pc = "done" /\ status = "completed"
  /\ config.prediction_horizon > 0
  /\ Len(ptsra_results) = MaxSlots
  /\ Len(optimizer_log) > 0

\* C9: an exception raised while slot k is processed makes runSimulation
\* return status = error: no slot after k is executed, every record and
\* every optimizer log entry appended before the exception is kept, and the
\* status is not running on return
C9_ErrorStops ==
  /\ [](error # "none" => status = "error" /\ pc = "done")
  /\ [](pc = "done" => status \in {"completed", "error"})
  /\ [][/\ error = "none"
        /\ IsPrefix(tsra_results, tsra_results')
        /\ IsPrefix(ptsra_results, ptsra_results')
        /\ IsPrefix(optimizer_log, optimizer_log')
        /\ error' # "none" =>
             /\ tsra_results' = tsra_results
             /\ ptsra_results' = ptsra_results
             /\ current_slot' = slot]_vars

\* an exception was caught in the second slot, after records and log entries
\* of the first slot had been appended
C9_Witness ==
  /\ error # "none"
  /\ current_slot = 1
  /\ Len(ptsra_results) >= 1
  /\ Len(optimizer_log) >= 1

\* C10: a progress callback or an optimizer log callback that throws does not
\* affect the simulation: the loop goes on and the final status is completed
C10_CallbacksAdvisory ==
  /\ error \notin {"progressCallback", "optimizerCallback"}
  /\ pc = "done" /\ error = "none" => status = "completed"

\* ---------------------------------------------------------------------------
\* C11: when the caller has asked for cancellation at a cooperative yield, the
\* loop halts with status "cancelled" and the records of the slots executed so
\* far are returned: a run that was asked to stop never ends completed.
C11_CancelHalts ==
  cancelRequested =>
    /\ status # "completed"
    /\ (pc = "done" /\ error = "none" => status = "cancelled")

\* ---------------------------------------------------------------------------
\* C12: a run on an empty sensor list is rejected at entry: no slot is
\* executed, no record is produced under either policy and the run never ends
\* with status "completed".
C12_EmptyRejected ==
  config.sensors = <<>> =>
    /\ tsra_results = <<>>
    /\ ptsra_results = <<>>
    /\ status # "completed"

\* ---------------------------------------------------------------------------
\* C13: the Baseline records and the (slot, generation) pairs of the optimizer
\* log are determined by the configuration and the seed.  The seeded generator
\* of the Baseline policy is the sequence of its draws, realized.tsra; the
\* unseeded part of the run is the outcome of the optimizer.

\* the Baseline record of slot k - 1, replayed from the configuration, the
\* states the record before it reports (the initial states for slot 0) and
\* the draws of the slot
ReplayRecord(cfg, results, draws, k) ==
  SlotResult(k - 1,
             executeSlot(Alg(cfg), cfg.sensors,
                         [i \in 1..Len(cfg.sensors) |-> PrevState(results, k, i)],
                         FirstEdgeServer(cfg.edge_servers), draws[k]),
             "TSRA")

\* the generations an optimization logs
LoggedGenerations(cfg) ==
  IF cfg.prediction_horizon > 0
  THEN Min2(cfg.optimizer.generations, maxStagnation(cfg.optimizer.generations))
  ELSE 0

\* the (slot, generation) pairs of a run of the configuration to its end:
\* slot by slot, sensor by sensor, generation by generation
RECURSIVE LogOfRun(_, _)
LogOfRun(cfg, n) ==
  IF n = 0 THEN <<>>
  ELSE LET perSlot == Len(cfg.sensors) * LoggedGenerations(cfg)
           s == (n - 1) \div perSlot
           g == (n - 1) % LoggedGenerations(cfg)
       IN  Append(LogOfRun(cfg, n - 1), [slot |-> s, generation |-> g])

ExpectedLog(cfg) ==
  LogOfRun(cfg, cfg.slots * Len(cfg.sensors) * LoggedGenerations(cfg))

LogPairs ==
  [n \in 1..Len(optimizer_log) |->
     [slot |-> optimizer_log[n].slot, generation |-> optimizer_log[n].generation]]

Rates(results, evs, p) ==
  LET alg == Alg(config)
      sensor == config.sensors[p[2]]
      rec == results[p[1]].sensor_results[p[2]]
      xi == results[p[1]].edge_results.ES_allocations[p[2]].xi
      delta == sensor.delta_cycles_per_bit
  IN  [C_l |-> (rec.f_cpu_Hz * alg.tau) \div delta,
       C_o |-> alg.bandwidth
                 * Log2(alg.noise_power_W
                          + rec.p_tx_W * evs[p[1]][p[2]].channelGain,
                        alg.noise_power_W)
                 * alg.tau,
       C_k |-> (xi[1] * FirstEdgeServer(config.edge_servers).f_k_Hz * alg.tau)
                 \div (xi[2] * delta)]

Backlog(st) == st.H_l + st.H_o + st.H_k

\* C14: for each sensor in each slot under both policies the backlog changes
\* by the arrival minus the bits actually served, min(C_l, H_l) locally and
\* min(C_k, H_k) at the edge; the transmission moves bits from H_o to H_k and
\* creates none
C14_QueueConservation ==
  \A k \in {"tsra", "ptsra"} :
    LET results == IF k = "tsra" THEN tsra_results ELSE ptsra_results
    IN  \A p \in Positions(results) :
          LET rec == results[p[1]].sensor_results[p[2]]
              st == PrevState(results, p[1], p[2])
              r == Rates(results, realized[k], p)
          IN  Backlog(StateOf(rec)) =
                Backlog(st) + rec.arrival_bits
                  - Min2(r.C_l, st.H_l) - Min2(r.C_k, st.H_k)

\* ---------------------------------------------------------------------------
\* the local energy of record <<s, i>>, theta * f^3 * tau, and the part of it
\* the battery at the start of the slot could not supply
LocalEnergy(results, p) ==
  LET f == results[p[1]].sensor_results[p[2]].f_cpu_Hz
  IN  Alg(config).theta * f * f * f * Alg(config).tau

ClipLoss(results, p) ==
  Max2(0, LocalEnergy(results, p) - PrevState(results, p[1], p[2]).B_u)

\* C15 as stated: B' - B = harvest - E_loc - clip_loss for some clip_loss >= 0,
\* that is, harvest - E_loc - (B' - B) is not negative
C15_ClipLossSubtracted ==
  \A results \in {tsra_results, ptsra_results} :
    \A p \in Positions(results) :
      LET rec == results[p[1]].sensor_results[p[2]]
      IN  rec.harvest_J - LocalEnergy(results, p)
            - (rec.battery_J - PrevState(results, p[1], p[2]).B_u) >= 0

\* C15, amended: for each sensor in each slot under both policies
\* B' - B = harvest - E_loc + clip_loss, where clip_loss = max(0, E_loc - B)
\* >= 0 is the local energy the battery could not supply; the transmission
\* energy is not drawn from the battery
C15_BatteryConservation ==
  \A k \in {"tsra", "ptsra"} :
    LET results == IF k = "tsra" THEN tsra_results ELSE ptsra_results
    IN  \A p \in Positions(results) :
          LET rec == results[p[1]].sensor_results[p[2]]
          IN  /\ rec.local_energy_J = LocalEnergy(results, p)
              /\ rec.harvest_J = realized[k][p[1]][p[2]].harvest
              /\ rec.battery_J - PrevState(results, p[1], p[2]).B_u =
                   rec.harvest_J - LocalEnergy(results, p) + ClipLoss(results, p)

\* a run in which the Predictive policy had a slot with a positive clip loss
\* and a positive harvest and a slot in which the battery covered the local
\* energy, and the Baseline policy spent local energy as well
C15_Witness ==
  /\ \E p, q \in Positions(ptsra_results) :
       /\ ClipLoss(ptsra_results, p) > 0
       /\ ptsra_results[p[1]].sensor_results[p[2]].harvest_J > 0
       /\ ClipLoss(ptsra_results, q) = 0
       /\ LocalEnergy(ptsra_results, q) > 0
  /\ \E p \in Positions(tsra_results) : LocalEnergy(tsra_results, p) > 0

\* ---------------------------------------------------------------------------
NoTransmissionPower ==
  \A i \in 1..Len(config.sensors) : config.sensors[i].p_max_W = 0

\* C16: when p_max = 0 for all sensors then in every slot and under both
\* policies p_u = 0 and C_o = 0, H_o does not decrease from one slot to the
\* next and H_k, initially 0, stays 0
C16_NoPowerNoOffload ==
  NoTransmissionPower =>
    \A k \in {"tsra", "ptsra"} :
      LET results == IF k = "tsra" THEN tsra_results ELSE ptsra_results
      IN  \A p \in Positions(results) :
            LET rec == results[p[1]].sensor_results[p[2]]
                st == PrevState(results, p[1], p[2])
            IN  /\ rec.p_tx_W = 0
                /\ rec.tx_energy_J = 0
                /\ Rates(results, realized[k], p).C_o = 0
                /\ rec.H_o >= st.H_o
                /\ st.H_k = 0
                /\ rec.H_k = 0

\* a completed run without transmission power in which the optimizer decided
\* and the offload queue grew under both policies
C16_Witness ==
  /\ NoTransmissionPower
  /\ status = "completed"
  /\ optimizer_log # <<>>
  /\ \A results \in {tsra_results, ptsra_results} :
       \E p \in Positions(results) :
         results[p[1]].sensor_results[p[2]].H_o > PrevState(results, p[1], p[2]).H_o

\* ---------------------------------------------------------------------------
\* one sensor with fixed positive arrivals, empty initial queues and no
\* transmission power
LocalOnlyScenario ==
  /\ Len(config.sensors) = 1
  /\ config.sensors[1].arrival_model.type = "fixed"
  /\ \E a \in generateArrival(config.sensors[1]) : a > 0
  /\ config.sensors[1].initial_queue_bits = 0
  /\ config.sensors[1].p_max_W = 0

\* C17: in that scenario the Baseline policy is purely local: in every slot
\* kappa = 0 (the record has alpha = 0), the arrival enters H_l, H_o stays 0,
\* and H_l is reduced by the local service f_u * tau / delta
C17_PurelyLocal ==
  LocalOnlyScenario =>
    \A p \in Positions(tsra_results) :
      LET rec == tsra_results[p[1]].sensor_results[p[2]]
          st == PrevState(tsra_results, p[1], p[2])
      IN  /\ rec.alpha = 0
          /\ rec.H_o = 0
          /\ rec.H_l = Max2(0, st.H_l - Rates(tsra_results, realized.tsra, p).C_l)
                         + rec.arrival_bits

\* ---------------------------------------------------------------------------
\* C18: optimize runs all G generations unless the best-ever fitness has not
\* improved for ceil(G/2) consecutive generations, an improving generation
\* resetting the count: when optimize has left its loop before generation G,
\* none of the last ceil(G/2) logged generations improved on the one before
C18_StopsOnlyOnStagnation ==
  pc \in {"ga_return", "ga_returned"} =>
    LET G == config.optimizer.generations
        n == Len(optimizer_log)
    IN  n < G =>
          \A j \in 2..n :
            j > n - maxStagnation(G) =>
              optimizer_log[j].best_fitness >= optimizer_log[j - 1].best_fitness

\* ---------------------------------------------------------------------------
\* the candidate's local energy in the first rollout slot is larger than the
\* battery of the sensor and the predicted harvest of that slot together
WouldExhaust(genes) ==
  LET f == Denormalize(GASensor, genes).f_u
  IN  Alg(config).theta * f * f * f * Alg(config).tau
        > ptsraStates[1].B_u + pt.predictions.harvests[1]

\* C19: a candidate whose energy use would make the battery negative in a
\* rollout slot carries the penalty: its fitness is above 10^5, and the log
\* entry of its generation counts it as infeasible
C19_BatteryPenalty ==
  pc \in {"ga_generation", "ga_breed", "ga_crossover", "ga_mutate",
          "ga_return", "ga_returned"} =>
    LET exhausting == {i \in 1..Len(opt.population) :
                         WouldExhaust(opt.population[i].genes)}
    IN  /\ \A i \in exhausting :
             opt.population[i].fitness > 100 * InfeasibleAbove
        /\ (pc # "ga_generation" /\ optimizer_log # <<>> =>
              optimizer_log[Len(optimizer_log)].infeasible_count
                >= Cardinality(exhausting))

\* ---------------------------------------------------------------------------
\* an optional parameter is given; its value
Given(x) == x # {}
ValueOf(x) == CHOOSE v \in x : TRUE

\* C20: a model parameter given in the configuration is used as given, also
\* when it is zero: a constant harvest is value_J, a bernoulli harvest with
\* p = 0 is 0, a fixed arrival is value_bits, and a uniform arrival is a draw
\* of uniform(min_bits, max_bits)
C20_ZeroParameterUsed ==
  \A results \in {tsra_results, ptsra_results} :
    \A p \in Positions(results) :
      LET rec == results[p[1]].sensor_results[p[2]]
          harvest_model == config.sensors[p[2]].harvest_model
          arrival_model == config.sensors[p[2]].arrival_model
      IN  /\ (harvest_model.type = "constant" /\ Given(harvest_model.value_J)
                 => rec.harvest_J = ValueOf(harvest_model.value_J))
          /\ (harvest_model.type = "bernoulli" /\ harvest_model.p = {0}
                 => rec.harvest_J = 0)
          /\ (arrival_model.type = "fixed" /\ Given(arrival_model.value_bits)
                 => rec.arrival_bits = ValueOf(arrival_model.value_bits))
          /\ (arrival_model.type = "uniform" /\ Given(arrival_model.min_bits)
                 /\ Given(arrival_model.max_bits)
                 => rec.arrival_bits \in
                      {uniform(u, ValueOf(arrival_model.min_bits),
                               ValueOf(arrival_model.max_bits)) : u \in URand})

\* ---------------------------------------------------------------------------
\* C21: SeededRandom.uniform(a, b) with a > b raises no error and returns a:
\* no run ends with an error because of a reversed range, and every arrival
\* drawn by uniform(min_bits, max_bits) with min_bits > max_bits is min_bits
C21_ReversedRangeReturnsMin ==
  \A results \in {tsra_results, ptsra_results} :
    \A p \in Positions(results) :
      LET arrival_model == config.sensors[p[2]].arrival_model
          min == OrElse(arrival_model.min_bits, 0)
          max == OrElse(arrival_model.max_bits, 0)
      IN  arrival_model.type = "uniform" /\ min > max /\ max > 0 =>
            /\ status # "error"
            /\ results[p[1]].sensor_results[p[2]].arrival_bits = min

\* ---------------------------------------------------------------------------
\* C23: in every record with at least one sensor total_backlog is the sum of
\* H_l + H_o + H_k, total_energy the sum of E_loc + E_tx, best_fitness is
\* -total_energy - 0.01 * total_backlog (in hundredths), and avg_latency_ms is
\* the mean over the sensors of (H_l + H_o + H_k) / max(A, 10^5) * 1000
C23_GlobalMetrics ==
  \A results \in {tsra_results, ptsra_results} :
    \A s \in 1..Len(results) :
      LET recs == results[s].sensor_results
          n == Len(recs)
          gm == results[s].global_metrics
          backlog == SumSeq([i \in 1..n |-> Backlog(StateOf(recs[i]))])
          energy == SumSeq([i \in 1..n |->
                              recs[i].local_energy_J + recs[i].tx_energy_J])
          latency == SumSeq([i \in 1..n |->
                               (Backlog(StateOf(recs[i])) * 1000)
                                 \div Max2(recs[i].arrival_bits, DefaultRate)])
      IN  n > 0 =>
            /\ gm.total_backlog_bits = backlog
            /\ gm.total_energy_J = energy
            /\ gm.best_fitness = 0 - 100 * energy - backlog
            /\ gm.avg_latency_ms = latency \div n

\* ---------------------------------------------------------------------------
\* C24: at every point of optimize the best-ever individual has a fitness no
\* greater than the fitness of every individual of the current population and
\* than the best of every generation reported so far (each population is
\* sorted, so its first member is its minimum), its genes lie within the
\* bounds, and its stored fitness is the fitness function's value on its genes;
\* this is the individual optimize returns
C24_BestIsMinimum ==
  opt # NoOpt =>
    /\ \A i \in 1..Len(opt.population) :
         /\ opt.bestEver.fitness <= opt.population[i].fitness
         /\ opt.population[1].fitness <= opt.population[i].fitness
    /\ \A k \in 1..Len(optimizer_log) :
         opt.bestEver.fitness <= optimizer_log[k].best_fitness
    /\ \A j \in 1..Len(bounds) :
         /\ bounds[j][1] <= opt.bestEver.genes[j]
         /\ opt.bestEver.genes[j] <= bounds[j][2]
    /\ opt.bestEver.fitness =
         fitnessFunction(Alg(config), config.prediction_horizon, GASensor,
                         ptsraStates[1], pt.predictions, opt.bestEver.genes)
    /\ pc = "ga_returned" => pt.act = Denormalize(GASensor, opt.bestEver.genes)

\* optimize has returned after a generation whose children improved on the
\* initial population, every individual of every generation being infeasible
C24_Witness ==
  /\ pc = "ga_returned"
  /\ Len(optimizer_log) >= 2
  /\ opt.bestEver.fitness < optimizer_log[1].best_fitness
  /\ opt.bestEver.fitness > 100 * InfeasibleAbove
  /\ \A k \in 1..Len(optimizer_log) :
       optimizer_log[k].infeasible_count = config.optimizer.population

\* ---------------------------------------------------------------------------
\* C25: after any sequence of updateHistory calls the arrival, harvest and
\* channel windows of each sensor have the length min(n, 50), n being the
\* number of observations of that sensor, and hold its most recent
\* observations, oldest first; no window holds another sensor's observation
Recent(observations) ==
  LET n == Len(observations)
  IN  SubSeq(observations, n - Min2(n, WindowSize) + 1, n)

C25_OwnedWindows ==
  pc = "history" =>
    \A i \in 1..Len(config.sensors) :
      LET recent == Recent(realized.ptsra[i])
          window == GetHistory(history, config.sensors[i].id)
      IN  /\ window.arrivals = [k \in 1..Len(recent) |-> recent[k].arrival]
          /\ window.harvests = [k \in 1..Len(recent) |-> recent[k].harvest]
          /\ window.channels = [k \in 1..Len(recent) |-> recent[k].channelGain]

\* ---------------------------------------------------------------------------
\* the optimizations of slot s that have logged their first generation
Started(s) ==
  Cardinality({n \in 1..Len(optimizer_log) :
                 optimizer_log[n].slot = s /\ optimizer_log[n].generation = 0})

\* C26: with H > 0 the log is made of one block per optimization, the
\* generations 0, 1, ... of the block in order with the slot of the
\* optimization in every record; the blocks follow each other by slot and
\* within a slot by sensor in configuration order; the running optimization
\* has logged every generation it has executed; and when the progress callback
\* of slot s is invoked every sensor's block of slot s is in the log
C26_LogOrder ==
  /\ \A n \in 1..Len(optimizer_log) :
       /\ optimizer_log[n].slot <= slot
       /\ n = 1 => optimizer_log[n].generation = 0
       /\ n > 1 =>
            /\ optimizer_log[n - 1].slot <= optimizer_log[n].slot
            /\ \/ optimizer_log[n].generation = 0
               \/ /\ optimizer_log[n].generation
                       = optimizer_log[n - 1].generation + 1
                  /\ optimizer_log[n].slot = optimizer_log[n - 1].slot
  /\ pc = "generation" /\ error = "none" =>
       /\ Len(optimizer_log) >= opt.gen
       /\ \A g \in 0..(opt.gen - 1) :
            optimizer_log[Len(optimizer_log) - opt.gen + 1 + g]
              = [slot |-> slot, generation |-> g]
       /\ Started(slot) = IF opt.gen > 0 THEN pt.i ELSE pt.i - 1
  /\ pc = "commit" /\ config.prediction_horizon > 0 =>
       /\ Started(slot) = pt.i
       /\ optimizer_log[Len(optimizer_log)].slot = slot
  /\ pc = "progress" /\ config.prediction_horizon > 0 =>
       /\ Started(slot) = Len(config.sensors)
       /\ \A s \in 0..slot : Started(s) = Len(config.sensors)

\* the progress callback of the second slot is about to be invoked in a run of
\* two sensors decided by the optimizer
C26_Witness ==
  /\ pc = "progress"
  /\ slot = 1
  /\ config.prediction_horizon > 0
  /\ Len(config.sensors) = 2
  /\ Len(optimizer_log) >= 8

\* ---------------------------------------------------------------------------
\* the windows of sensor i made of the observations of the realized slots
PastWindows(i) ==
  [arrivals |-> [s \in 1..Len(realized.ptsra) |-> realized.ptsra[s][i].arrival],
   harvests |-> [s \in 1..Len(realized.ptsra) |-> realized.ptsra[s][i].harvest],
   channels |-> [s \in 1..Len(realized.ptsra) |->
                   realized.ptsra[s][i].channelGain]]

\* C27: the prediction used to decide slot t for a sensor is a perturbation of
\* the EWMAs of its observations of slots 0..t-1 only, and in slot 0, where
\* there is no such observation, of the sensor's configured means
C27_PredictionFromPast ==
  pc = "generation" /\ config.prediction_horizon > 0 =>
    LET sensor == config.sensors[pt.i]
        ewma == EWMAs(PastWindows(pt.i), sensor)
    IN  /\ Len(realized.ptsra) = slot
        /\ \E us \in [1..config.prediction_horizon -> NoiseDraws] :
             pt.predictions = Perturbed(ewma, config.prediction_horizon, us)
        /\ slot = 0 =>
             \E us \in [1..config.prediction_horizon -> NoiseDraws] :
               pt.predictions =
                 Perturbed([arrival |-> 100 * sensor.J_mean_bits_per_slot,
                            harvest |-> 100 * sensor.harvest_mean_J_per_slot,
                            channel |-> 100 * sensor.channel_mean_gain],
                           config.prediction_horizon, us)

\* ---------------------------------------------------------------------------
\* C28: after any sequence of the builder's list operations the ids of the
\* sensor list are pairwise distinct, in particular in the list handed to the
\* simulation
C28_DistinctIds ==
  \A i, j \in 1..Len(config.sensors) :
    i # j => config.sensors[i].id # config.sensors[j].id

\* ---------------------------------------------------------------------------
\* the Baseline record <<s, i>> with the rates of its decision and the state
\* its slot started from
BaselineSlot(p) ==
  [rates |-> Rates(tsra_results, realized.tsra, p),
   start |-> PrevState(tsra_results, p[1], p[2])]

C30_BaselineEnergyWithinBattery ==
  \A p \in Positions(tsra_results) :
    calculateLocalEnergy(Alg(config),
                         tsra_results[p[1]].sensor_results[p[2]].f_cpu_Hz)
      <= BaselineSlot(p).start.B_u

\* ---------------------------------------------------------------------------
\* Mulberry32 with the state held as seed + k * 0x6d2b79f5 modulo 2^32
Reference(seed, k) == Mix(ToInt32(StateAfter(seed, k)))

\* C22: the k-th output of random() is the reference value for the seed and
\* k, whatever k, and lies in [0, 1): its numerator is a 32-bit number over
\* the denominator 2^32
C22_Mulberry32 ==
  pc = "random" /\ opt.out # <<>> =>
    /\ opt.out = Reference(config.seed, opt.k)
    /\ \A j \in 1..2 : opt.out[j] >= 0 /\ opt.out[j] < Limb

============================================================================
